---------------------------- MODULE Spec2Model ----------------------------
(***************************************************************************)
(* Fashion trend forecaster backend (britbrat0/cs667, backend/app).        *)
(*                                                                         *)
(* The module models, from the Python sources:                             *)
(*   - trends/service.py   growth rate, composite score, lifecycle stage,  *)
(*                         score replacement, top-trends ranking           *)
(*   - scrapers/google_trends.py   the search_volume upsert                *)
(*   - trends/router.py, scheduler/jobs.py, scrapers/discovery.py          *)
(*                         the keyword registry operations                 *)
(*                                                                         *)
(* Python floats are modelled as exact rationals [n, d] in lowest terms;   *)
(* a value rounded with round(x, 2) is held as an integer number of        *)
(* hundredths.  SQLite connections are modelled with their transaction     *)
(* semantics: writes of an open transaction are private to the connection  *)
(* that holds the write lock until it commits.                             *)
(***************************************************************************)
EXTENDS Integers, Sequences, FiniteSets, TLC

VARIABLES
    \* ---- _get_growth_rate applied to two lists (service.py:11-19)
    values_first_half, values_second_half, growth_rate, growth_pc,
    \* ---- the lifecycle decision (service.py:85-125)
    total_volume, volume_growth, acceleration, scale, lifecycle_stage, lifecycle_pc,
    \* ---- the database (database.py:14-110) and the clock, in hours
    trend_data,      \* table trend_data, a list in rowid order
    keywords,        \* table keywords, by keyword (UNIQUE)
    trend_scores,    \* table trend_scores, a list in rowid order
    now,
    \* ---- one call of compute_composite_score (service.py:22-82)
    cs_keyword, cs_period, cs_result, cs_pc,
    \* ---- one call of get_top_trends (service.py:171-214)
    top_period, top_result, top_pc,
    \* ---- the keyword registry operations (trends/router.py, scheduler/jobs.py,
    \*      scrapers/discovery.py)
    classify_pending,   \* keywords with a started, unfinished _classify thread
    response,           \* how the last registry operation ended
    \* ---- worker threads writing through their own SQLite connection
    db_writer,       \* the thread whose connection holds the write lock, or NULL
    db_pending,      \* the written table as that connection sees it, uncommitted
    threads,         \* what each worker thread is doing
    seen,            \* per date, the readings delivered by the scrapes that ran
                     \* one after the other
    scored,          \* keywords whose scores were stored and committed once
    score_read,      \* what the last reader of trend_scores found
    \* ---- the scheduled job scrape_and_score (scheduler/jobs.py:23-98)
    job_pc,          \* the function of the job that is running
    job_keywords,    \* the list its loop iterates over
    job_i,           \* position of the loop in that list
    job_log,         \* what was attempted so far, per function and keyword
    \* ---- the settings object (config.py:5-26)
    settings,        \* the value of each field of Settings
    \* ---- one call of run_discovery (discovery.py:321-362)
    disc_candidates, \* all_candidates in the order the loop visits them
    disc_replies,    \* per candidate, what the collaborator answers
    \* ---- one request to search_trend (trends/router.py:179-198) or to
    \*      add_to_comparison (compare/router.py:48-80)
    req_pc,          \* where the handler is
    req_endpoint,    \* "search" or "compare"
    req_keyword,     \* the normalised keyword of the request
    req_fresh,       \* what _has_fresh_data returned
    req_waited,      \* seconds spent in thread.join so far
    req_body,        \* what the response carries
    ondemand,        \* the scrape_single_keyword thread the handler started
    user_comparisons,\* table user_comparisons of the user of the request
    \* ---- one call of forecast_search_volume (forecasting/model.py:16-91)
    fc_pc,           \* "call" before the function ran, "returned" after
    fc_historical,   \* the daily values the query of lines 32-38 returns
    fc_horizon,      \* horizon_days
    fc_result,       \* the dict the function returns
    \* ---- one call of scrape_google_trends (scrapers/google_trends.py:12-22)
    gt_pc,           \* "loop" at the head of the for loop, "sleep" before
                     \* time.sleep, "returned" after the return
    gt_retries,      \* the parameter retries
    gt_attempt,      \* the loop variable attempt
    gt_outcomes,     \* what each call of _scrape_google_trends_once returned
    gt_slept,        \* the seconds of each time.sleep that is over
    gt_result,       \* what the function returned
    \* ---- requests served at the same time: the server runs every handler
    \*      on a thread of its pool
    handlers,        \* per handler thread, the request it serves and where it is
    scrape_threads   \* the scrape_single_keyword threads started, in order

growthVars == <<values_first_half, values_second_half, growth_rate, growth_pc>>
lifecycleVars == <<total_volume, volume_growth, acceleration, scale, lifecycle_stage, lifecycle_pc>>

dbVars == <<trend_data, keywords, trend_scores, now>>
compositeVars == <<cs_keyword, cs_period, cs_result, cs_pc>>

topVars == <<top_period, top_result, top_pc>>
registryVars == <<classify_pending, response>>
workerVars == <<db_writer, db_pending, threads, seen, scored, score_read>>
jobVars == <<job_pc, job_keywords, job_i, job_log>>
configVars == <<settings>>
discoveryVars == <<disc_candidates, disc_replies>>

\* the variables of the scheduled jobs and of the request handlers
requestVars == <<req_pc, req_endpoint, req_keyword, req_fresh, req_waited, req_body,
                 ondemand, user_comparisons>>

forecastVars == <<fc_pc, fc_historical, fc_horizon, fc_result>>

retryVars == <<gt_pc, gt_retries, gt_attempt, gt_outcomes, gt_slept, gt_result>>

handlerVars == <<handlers, scrape_threads>>

\* the variables of the other calls and endpoints
endpointVars == <<forecastVars, retryVars, handlerVars>>
notForecastVars == <<retryVars, handlerVars>>
notRetryVars == <<forecastVars, handlerVars>>
notHandlerVars == <<forecastVars, retryVars>>

\* the variables of the scheduled jobs and of the request handlers
serviceVars == <<jobVars, configVars, discoveryVars, requestVars, endpointVars>>

\* the same without one group
notJobVars == <<configVars, discoveryVars, requestVars, endpointVars>>
notDiscoveryVars == <<jobVars, configVars, requestVars, endpointVars>>
notRequestVars == <<jobVars, configVars, discoveryVars, endpointVars>>
notEndpointVars == <<jobVars, configVars, discoveryVars, requestVars>>

vars == <<growthVars, lifecycleVars, dbVars, compositeVars, topVars, registryVars,
          workerVars, serviceVars>>

-----------------------------------------------------------------------------
(* Bounds of the model *)

MaxGrowthValue == 3
MaxGrowthLen == 2
MaxTotalVolume == 101
MaxAbsGrowth == 31
MaxMetricValue == 8
MaxMetricRows == 2
MaxTopKeywords == 3
MaxTopScore == 1
MaxClockSteps == 2
MaxReading == 2
MaxDates == 2
MaxScoredValue == 2

-----------------------------------------------------------------------------
(* Python float arithmetic, as exact rationals *)

NULL == "NULL"

Abs(x) == IF x < 0 THEN -x ELSE x

RECURSIVE GCD(_, _)
GCD(a, b) == IF b = 0 THEN a ELSE GCD(b, a % b)

\* the float n/d, d # 0, in lowest terms with a positive denominator
Rat(n, d) ==
    LET g == GCD(Abs(n), Abs(d))
        s == IF d < 0 THEN -1 ELSE 1
    IN  [n |-> (s * n) \div g, d |-> (s * d) \div g]

Float(k) == [n |-> k, d |-> 1]

\* what a division by zero leaves instead of a value: the exception
ZeroDivisionError == [n |-> 0, d |-> 0]

IsFloat(x) == x.d # 0

\* sums and differences are taken over the least common denominator, which
\* keeps the intermediate integers small
FloatAdd(a, b) ==
    IF ~IsFloat(a) \/ ~IsFloat(b) THEN ZeroDivisionError
    ELSE LET g == GCD(a.d, b.d)
         IN  Rat(a.n * (b.d \div g) + b.n * (a.d \div g), (a.d \div g) * b.d)

FloatSub(a, b) ==
    IF ~IsFloat(a) \/ ~IsFloat(b) THEN ZeroDivisionError
    ELSE LET g == GCD(a.d, b.d)
         IN  Rat(a.n * (b.d \div g) - b.n * (a.d \div g), (a.d \div g) * b.d)

FloatMul(a, b) ==
    IF ~IsFloat(a) \/ ~IsFloat(b) THEN ZeroDivisionError
    ELSE Rat(a.n * b.n, a.d * b.d)

\* a / b: raises ZeroDivisionError when b == 0
FloatDiv(a, b) ==
    IF ~IsFloat(a) \/ ~IsFloat(b) \/ b.n = 0 THEN ZeroDivisionError
    ELSE Rat(a.n * b.d, a.d * b.n)

FloatLT(a, b) == a.n * b.d < b.n * a.d
FloatLE(a, b) == a.n * b.d <= b.n * a.d
FloatGT(a, b) == FloatLT(b, a)
FloatGE(a, b) == FloatLE(b, a)

RECURSIVE sum(_)
sum(values) == IF values = <<>> THEN 0 ELSE Head(values) + sum(Tail(values))

\* all lists of at most maxLen elements of S
SeqsUpTo(S, maxLen) == UNION {[1..k -> S] : k \in 0..maxLen}

-----------------------------------------------------------------------------
(* trends/service.py: _get_growth_rate *)

\* a slip: an empty first half treated like a first half of mean zero
_get_growth_rate_empty_first_as_zero(first, second) ==
    IF Len(second) = 0 THEN Float(0)
    ELSE IF Len(first) = 0 \/ sum(first) = 0
         THEN (IF sum(second) > 0 THEN Float(100) ELSE Float(0))
         ELSE FloatMul(FloatDiv(FloatSub(Rat(sum(second), Len(second)),
                                         Rat(sum(first), Len(first))),
                                Rat(sum(first), Len(first))),
                       Float(100))

\* a slip: the avg_first == 0 test left out
_get_growth_rate_no_zero_test(first, second) ==
    IF Len(first) = 0 \/ Len(second) = 0 THEN Float(0)
    ELSE FloatMul(FloatDiv(FloatSub(Rat(sum(second), Len(second)),
                                    Rat(sum(first), Len(first))),
                           Rat(sum(first), Len(first))),
                  Float(100))

_get_growth_rate(first, second) ==
    IF Len(first) = 0 \/ Len(second) = 0 THEN Float(0)
    ELSE LET avg_first == FloatDiv(Float(sum(first)), Float(Len(first)))
             avg_second == FloatDiv(Float(sum(second)), Float(Len(second)))
         IN  IF avg_first = Float(0)
             THEN (IF FloatGT(avg_second, Float(0)) THEN Float(100) ELSE Float(0))
             ELSE FloatMul(FloatDiv(FloatSub(avg_second, avg_first), avg_first),
                           Float(100))

GrowthQuiet ==
    /\ values_first_half = <<>>
    /\ values_second_half = <<>>
    /\ growth_rate = Float(0)
    /\ growth_pc = "off"

GrowthInit ==
    /\ values_first_half \in SeqsUpTo(0..MaxGrowthValue, MaxGrowthLen)
    /\ values_second_half \in SeqsUpTo(0..MaxGrowthValue, MaxGrowthLen)
    /\ growth_rate = Float(0)
    /\ growth_pc = "call"

CallGetGrowthRate ==
    /\ growth_pc = "call"
    /\ growth_rate' = _get_growth_rate(values_first_half, values_second_half)
    /\ growth_pc' = "returned"
    /\ UNCHANGED <<values_first_half, values_second_half, lifecycleVars, dbVars, serviceVars,
                   compositeVars, topVars, registryVars, workerVars>>

-----------------------------------------------------------------------------
(* trends/service.py: _detect_lifecycle, the decision on lines 102-125 *)

\* a slip: the peak branch tests total_volume >= peak_vol_thresh
LifecycleStage_peak_floor_inclusive(total, growth, accel, sc) ==
    LET is_micro == sc = "micro"
        dormant_thresh == IF is_micro THEN 2 ELSE 5
        emerging_vol_thresh == IF is_micro THEN 15 ELSE 100
        peak_vol_thresh == IF is_micro THEN 5 ELSE 50
    IN  IF total < dormant_thresh THEN "Dormant"
        ELSE IF FloatGT(growth, Float(30)) /\ total < emerging_vol_thresh THEN "Emerging"
        ELSE IF FloatGT(growth, Float(20)) /\ FloatGT(accel, Float(0)) THEN "Accelerating"
        ELSE IF FloatLE(Float(-5), growth) /\ FloatLE(growth, Float(10))
                /\ total >= peak_vol_thresh
             THEN (IF FloatLE(accel, Float(0)) THEN "Peak" ELSE "Accelerating")
        ELSE IF FloatLE(Float(-20), growth) /\ FloatLT(growth, Float(-5)) THEN "Saturation"
        ELSE IF FloatLT(growth, Float(-20)) THEN "Decline"
        ELSE IF FloatGT(growth, Float(10)) THEN "Emerging"
        ELSE "Peak"

\* a slip: the fallback looks at the acceleration as the peak branch does
LifecycleStage_fallback_by_acceleration(total, growth, accel, sc) ==
    LET is_micro == sc = "micro"
        dormant_thresh == IF is_micro THEN 2 ELSE 5
        emerging_vol_thresh == IF is_micro THEN 15 ELSE 100
        peak_vol_thresh == IF is_micro THEN 5 ELSE 50
    IN  IF total < dormant_thresh THEN "Dormant"
        ELSE IF FloatGT(growth, Float(30)) /\ total < emerging_vol_thresh THEN "Emerging"
        ELSE IF FloatGT(growth, Float(20)) /\ FloatGT(accel, Float(0)) THEN "Accelerating"
        ELSE IF FloatLE(Float(-5), growth) /\ FloatLE(growth, Float(10))
                /\ total > peak_vol_thresh
             THEN (IF FloatLE(accel, Float(0)) THEN "Peak" ELSE "Accelerating")
        ELSE IF FloatLE(Float(-20), growth) /\ FloatLT(growth, Float(-5)) THEN "Saturation"
        ELSE IF FloatLT(growth, Float(-20)) THEN "Decline"
        ELSE IF FloatGT(growth, Float(10)) THEN "Emerging"
        ELSE IF FloatLE(accel, Float(0)) THEN "Peak" ELSE "Accelerating"

LifecycleStage(total, growth, accel, sc) ==
    LET is_micro == sc = "micro"
        dormant_thresh == IF is_micro THEN 2 ELSE 5
        emerging_vol_thresh == IF is_micro THEN 15 ELSE 100
        peak_vol_thresh == IF is_micro THEN 5 ELSE 50
    IN  IF total < dormant_thresh THEN "Dormant"
        ELSE IF FloatGT(growth, Float(30)) /\ total < emerging_vol_thresh THEN "Emerging"
        ELSE IF FloatGT(growth, Float(20)) /\ FloatGT(accel, Float(0)) THEN "Accelerating"
        ELSE IF FloatLE(Float(-5), growth) /\ FloatLE(growth, Float(10))
                /\ total > peak_vol_thresh
             THEN (IF FloatLE(accel, Float(0)) THEN "Peak" ELSE "Accelerating")
        ELSE IF FloatLE(Float(-20), growth) /\ FloatLT(growth, Float(-5)) THEN "Saturation"
        ELSE IF FloatLT(growth, Float(-20)) THEN "Decline"
        ELSE IF FloatGT(growth, Float(10)) THEN "Emerging"
        ELSE "Peak"

\* service.py:108-125: the branch of the if/elif chain that returns, counted
\* from 1 (Dormant) to 7 (the final else)
LifecycleBranch(total, growth, accel, sc) ==
    LET is_micro == sc = "micro"
        dormant_thresh == IF is_micro THEN 2 ELSE 5
        emerging_vol_thresh == IF is_micro THEN 15 ELSE 100
        peak_vol_thresh == IF is_micro THEN 5 ELSE 50
    IN  IF total < dormant_thresh THEN 1
        ELSE IF FloatGT(growth, Float(30)) /\ total < emerging_vol_thresh THEN 2
        ELSE IF FloatGT(growth, Float(20)) /\ FloatGT(accel, Float(0)) THEN 3
        ELSE IF FloatLE(Float(-5), growth) /\ FloatLE(growth, Float(10))
                /\ total > peak_vol_thresh
             THEN 4
        ELSE IF FloatLE(Float(-20), growth) /\ FloatLT(growth, Float(-5)) THEN 5
        ELSE IF FloatLT(growth, Float(-20)) THEN 6
        ELSE 7

\* service.py:68: the scale a keyword is classified under
ScaleOrMacro(scale_column) == IF scale_column # NULL THEN scale_column ELSE "macro"

LifecycleQuiet ==
    /\ total_volume = 0
    /\ volume_growth = Float(0)
    /\ acceleration = Float(0)
    /\ scale = NULL
    /\ lifecycle_stage = "none"
    /\ lifecycle_pc = "off"

LifecycleInit ==
    /\ total_volume \in 0..MaxTotalVolume
    /\ volume_growth \in {Float(g) : g \in -MaxAbsGrowth..MaxAbsGrowth}
    /\ acceleration \in {Float(-1), Float(0), Float(1)}
    /\ scale \in {NULL, "macro", "micro"}
    /\ lifecycle_stage = "none"
    /\ lifecycle_pc = "call"

CallDetectLifecycle ==
    /\ lifecycle_pc = "call"
    /\ lifecycle_stage' = LifecycleStage(total_volume, volume_growth, acceleration,
                                         ScaleOrMacro(scale))
    /\ lifecycle_pc' = "returned"
    /\ UNCHANGED <<total_volume, volume_growth, acceleration, scale, growthVars, dbVars, serviceVars,
                   compositeVars, topVars, registryVars, workerVars>>


-----------------------------------------------------------------------------
(* The database: database.py init_db *)

Keywords == {"k1", "k2"}

Periods == {7, 14, 30, 60, 90}

\* a keyword with no row in table keywords
NoRow == [source |-> NULL, status |-> NULL, scale |-> NULL, last_searched_at |-> -1]

DbEmpty ==
    /\ trend_data = <<>>
    /\ keywords = [k \in Keywords |-> NoRow]
    /\ trend_scores = <<>>
    /\ now = 0

\* ORDER BY recorded_at: row r put after the rows of a sorted list that are not later
RECURSIVE InsertByRecordedAt(_, _)
InsertByRecordedAt(sorted, r) ==
    IF sorted = <<>> THEN <<r>>
    ELSE IF Head(sorted).recorded_at <= r.recorded_at
         THEN <<Head(sorted)>> \o InsertByRecordedAt(Tail(sorted), r)
         ELSE <<r>> \o sorted

RECURSIVE OrderByRecordedAt(_)
OrderByRecordedAt(rows) ==
    IF rows = <<>> THEN <<>>
    ELSE InsertByRecordedAt(OrderByRecordedAt(SubSeq(rows, 1, Len(rows) - 1)),
                            rows[Len(rows)])

ValuesOf(rows) == [i \in 1..Len(rows) |-> rows[i].value]

-----------------------------------------------------------------------------
(* trends/service.py: compute_composite_score and _detect_lifecycle *)

volume_metrics == <<"search_volume", "sold_count", "mention_count", "listing_count">>

price_sources == {"ebay", "etsy", "poshmark", "depop"}

\* round(x, 2), as a number of hundredths: the nearest one, a tie to the even one
Round2(x) ==
    LET lo == (100 * x.n) \div x.d
        rem == 100 * x.n - lo * x.d
    IN  IF 2 * rem > x.d THEN lo + 1
        ELSE IF 2 * rem < x.d THEN lo
        ELSE IF lo % 2 = 0 THEN lo ELSE lo + 1

\* service.py:39-49: the values of one volume metric, one half of the window
HalfOfMetric(data, keyword, metric, start, midpoint, second) ==
    LET Hit(r) == r.keyword = keyword /\ r.metric = metric /\ r.recorded_at >= start
        InHalf(r) == IF second THEN ~(r.recorded_at < midpoint) ELSE r.recorded_at < midpoint
    IN  ValuesOf(SelectSeq(OrderByRecordedAt(SelectSeq(data, Hit)), InHalf))

\* service.py:35-49: the loop over volume_metrics
RECURSIVE HalfVolumes(_, _, _, _, _, _)
HalfVolumes(data, keyword, metrics, start, midpoint, second) ==
    IF metrics = <<>> THEN <<>>
    ELSE HalfOfMetric(data, keyword, Head(metrics), start, midpoint, second)
         \o HalfVolumes(data, keyword, Tail(metrics), start, midpoint, second)

\* service.py:54-60
HalfPrices(data, keyword, start, midpoint, second) ==
    LET Hit(r) == /\ r.keyword = keyword /\ r.source \in price_sources
                  /\ r.metric = "avg_price" /\ r.recorded_at >= start
        InHalf(r) == IF second THEN r.recorded_at >= midpoint ELSE r.recorded_at < midpoint
    IN  ValuesOf(SelectSeq(OrderByRecordedAt(SelectSeq(data, Hit)), InHalf))

\* service.py:88-93: SUM(value) over the window, 0 when there is no row
TotalVolume(data, keyword, start) ==
    LET Hit(r) == /\ r.keyword = keyword
                  /\ \E i \in 1..Len(volume_metrics) : r.metric = volume_metrics[i]
                  /\ r.recorded_at >= start
    IN  sum(ValuesOf(SelectSeq(data, Hit)))

\* service.py:95-99: the keyword's stored scores
ScoresOf(scores, keyword) ==
    LET Hit(r) == r.keyword = keyword
    IN  SelectSeq(scores, Hit)

\* service.py:95-98: ORDER BY computed_at DESC leaves the order of rows of equal
\* computed_at open: the composite_score of any latest row may come first
PrevFirstChoices(scores, keyword) ==
    LET mine == ScoresOf(scores, keyword)
        latest == {i \in 1..Len(mine) :
                      \A j \in 1..Len(mine) : mine[j].computed_at <= mine[i].computed_at}
    IN  IF mine = <<>> THEN {0} ELSE {mine[i].composite_score : i \in latest}

\* a slip: the number of stored scores is not looked at
Acceleration_unguarded(composite_score, scores, keyword, prev_first) ==
    FloatSub(composite_score, Rat(prev_first, 100))

\* service.py:100
Acceleration(composite_score, scores, keyword, prev_first) ==
    IF Len(ScoresOf(scores, keyword)) >= 2
    THEN FloatSub(composite_score, Rat(prev_first, 100))
    ELSE Float(0)

_detect_lifecycle(keyword, growth, composite_score, data, scores, start, sc, prev_first) ==
    LifecycleStage(TotalVolume(data, keyword, start), growth,
                   Acceleration(composite_score, scores, keyword, prev_first), sc)

compute_composite_score(keyword, period_days, data, kwtable, scores, t, prev_first) ==
    LET start == t - 24 * period_days
        midpoint == t - 12 * period_days
        first_half_volumes ==
            HalfVolumes(data, keyword, volume_metrics, start, midpoint, FALSE)
        second_half_volumes ==
            HalfVolumes(data, keyword, volume_metrics, start, midpoint, TRUE)
        vg == _get_growth_rate(first_half_volumes, second_half_volumes)
        first_half_prices == HalfPrices(data, keyword, start, midpoint, FALSE)
        second_half_prices == HalfPrices(data, keyword, start, midpoint, TRUE)
        pg == _get_growth_rate(first_half_prices, second_half_prices)
        composite_score == FloatAdd(FloatMul(Rat(6, 10), vg), FloatMul(Rat(4, 10), pg))
        sc == ScaleOrMacro(kwtable[keyword].scale)
    IN  [keyword |-> keyword,
         period_days |-> period_days,
         volume_growth |-> Round2(vg),
         price_growth |-> Round2(pg),
         composite_score |-> Round2(composite_score),
         lifecycle_stage |-> _detect_lifecycle(keyword, vg, composite_score, data, scores,
                                               start, sc, prev_first),
         scale |-> sc,
         \* the local variable acceleration of _detect_lifecycle (service.py:100);
         \* the dict of the code does not carry it
         acceleration |-> Acceleration(composite_score, scores, keyword, prev_first)]

NoResult ==
    [keyword |-> NULL, period_days |-> 0, volume_growth |-> 0, price_growth |-> 0,
     composite_score |-> 0, lifecycle_stage |-> NULL, scale |-> NULL,
     acceleration |-> Float(0)]

CompositeQuiet ==
    /\ cs_keyword = NULL
    /\ cs_period = 0
    /\ cs_result = NoResult
    /\ cs_pc = "off"

\* the clock of the composite-score runs: the longest window fits before it
LongestWindow == 24 * 90

\* the (source, metric) pairs of the sampled rows: a volume metric, a price, and a
\* metric the score does not read
SampledKinds ==
    {<<"google_trends", "search_volume">>, <<"ebay", "avg_price">>,
     <<"ebay", "price_volatility">>}

\* rows recorded just before the window, at its start and at its midpoint
SampledRows(period_days, t) ==
    [keyword : Keywords,
     kind : SampledKinds,
     value : 0..MaxMetricValue,
     recorded_at : {t - 24 * period_days - 1, t - 24 * period_days, t - 12 * period_days}]

RowOf(s) ==
    [keyword |-> s.keyword, source |-> s.kind[1], metric |-> s.kind[2], value |-> s.value,
     region |-> NULL, recorded_at |-> s.recorded_at]

CompositeInit ==
    /\ now = LongestWindow
    /\ cs_keyword = "k1"
    /\ cs_period \in Periods
    /\ \E rows \in SeqsUpTo(SampledRows(cs_period, now), MaxMetricRows) :
           trend_data = [i \in 1..Len(rows) |-> RowOf(rows[i])]
    /\ \E sc \in {NULL, "macro", "micro"} :
           keywords = [k \in Keywords |->
                          [source |-> "seed", status |-> "active", scale |-> sc,
                           last_searched_at |-> -1]]
    /\ trend_scores = <<>>
    /\ cs_result = NoResult
    /\ cs_pc = "call"

CallComputeCompositeScore ==
    /\ cs_pc = "call"
    /\ \E prev_first \in PrevFirstChoices(trend_scores, cs_keyword) :
           cs_result' = compute_composite_score(cs_keyword, cs_period, trend_data, keywords,
                                                trend_scores, now, prev_first)
    /\ cs_pc' = "returned"
    /\ UNCHANGED <<cs_keyword, cs_period, dbVars, serviceVars, growthVars, lifecycleVars, topVars,
                 registryVars, workerVars>>


-----------------------------------------------------------------------------
(* trends/service.py: get_top_trends *)

\* sorted(..., reverse=True) and ORDER BY ... DESC on field key: descending, rows of
\* equal key kept in their order
RECURSIVE InsertByKeyDesc(_, _)
InsertByKeyDesc(sorted, r) ==
    IF sorted = <<>> THEN <<r>>
    ELSE IF FloatGE(Head(sorted).key, r.key)
         THEN <<Head(sorted)>> \o InsertByKeyDesc(Tail(sorted), r)
         ELSE <<r>> \o sorted

RECURSIVE SortedByKeyDesc(_)
SortedByKeyDesc(rows) ==
    IF rows = <<>> THEN <<>>
    ELSE InsertByKeyDesc(SortedByKeyDesc(SubSeq(rows, 1, Len(rows) - 1)), rows[Len(rows)])

\* service.py:175-184: trend_scores LEFT JOIN keywords, the rows of the period
\* whose keyword is not inactive, ORDER BY composite_score DESC
TopRows(period_days, scores, kwtable) ==
    LET Hit(ts) == /\ ts.period_days = period_days
                   /\ (kwtable[ts.keyword].status = NULL
                       \/ kwtable[ts.keyword].status # "inactive")
        hits == SelectSeq(scores, Hit)
    IN  SortedByKeyDesc(
            [i \in 1..Len(hits) |->
                [keyword |-> hits[i].keyword,
                 composite_score |-> hits[i].composite_score,
                 volume_growth |-> hits[i].volume_growth,
                 price_growth |-> hits[i].price_growth,
                 lifecycle_stage |-> hits[i].lifecycle_stage,
                 computed_at |-> hits[i].computed_at,
                 source |-> kwtable[hits[i].keyword].source,
                 scale |-> ScaleOrMacro(kwtable[hits[i].keyword].scale),
                 key |-> Float(hits[i].composite_score)]])

\* service.py:186-187: one scale group, sorted by composite score
ScaleGroup(all_trends, sc) ==
    LET InGroup(t) == t.scale = sc
        group == SelectSeq(all_trends, InGroup)
    IN  SortedByKeyDesc([i \in 1..Len(group) |->
                            [group[i] EXCEPT !.key = Float(group[i].composite_score)]])

\* service.py:189-193: the i-th row of a group of n (i from 0) gets (n - i) / n
assign_percentile(group) ==
    [i \in 1..Len(group) |-> [group[i] EXCEPT !.key = Rat(Len(group) - (i - 1), Len(group))]]

\* a slip: the combined list sorted by the raw composite score
Combined_by_raw_score(macro, micro) ==
    LET both == assign_percentile(macro) \o assign_percentile(micro)
    IN  SortedByKeyDesc([i \in 1..Len(both) |->
                            [both[i] EXCEPT !.key = Float(both[i].composite_score)]])

\* service.py:195-199
Combined(macro, micro) ==
    SortedByKeyDesc(assign_percentile(macro) \o assign_percentile(micro))

get_top_trends(period_days, limit, scores, kwtable) ==
    LET all_trends == TopRows(period_days, scores, kwtable)
        macro == ScaleGroup(all_trends, "macro")
        micro == ScaleGroup(all_trends, "micro")
        combined == Combined(macro, micro)
        top == SubSeq(combined, 1, IF Len(combined) < limit THEN Len(combined) ELSE limit)
    IN  [i \in 1..Len(top) |->
            [rank |-> i,
             keyword |-> top[i].keyword,
             composite_score |-> top[i].composite_score,
             volume_growth |-> top[i].volume_growth,
             price_growth |-> top[i].price_growth,
             lifecycle_stage |-> top[i].lifecycle_stage,
             computed_at |-> top[i].computed_at,
             source |-> IF top[i].source # NULL THEN top[i].source ELSE "seed",
             scale |-> top[i].scale]]

\* router.py:127: the route asks for the ten first
TopLimit == 10

TopQuiet ==
    /\ top_period = 0
    /\ top_result = <<>>
    /\ top_pc = "off"

KeywordNames ==
    <<"k1", "k2", "k3", "k4", "k5", "k6", "k7", "k8", "k9", "k10", "k11", "k12">>

AllKeywords == {KeywordNames[i] : i \in 1..Len(KeywordNames)}

\* what table keywords may hold for a keyword that has scores (the query tests
\* the status against 'inactive' only)
RegistryRows ==
    {NoRow} \cup
    [source : {"seed"}, status : {"active", "inactive"},
     scale : {NULL, "macro", "micro"}, last_searched_at : {-1}]

\* the scores of one keyword for the periods 7 and 14: composite c for 7 and a
\* different one for 14
ScorePair(k, c) ==
    <<[keyword |-> k, period_days |-> 7, volume_growth |-> c, price_growth |-> c,
       composite_score |-> c, lifecycle_stage |-> "Peak", computed_at |-> 0],
      [keyword |-> k, period_days |-> 14, volume_growth |-> c + 1, price_growth |-> c + 1,
       composite_score |-> c + 1, lifecycle_stage |-> "Peak", computed_at |-> 0]>>

RECURSIVE ScorePairs(_, _)
ScorePairs(n, score) ==
    IF n = 0 THEN <<>> ELSE ScorePairs(n - 1, score) \o ScorePair(KeywordNames[n], score[n])

\* n scored keywords, each in any registry state and with any small score
TopSmallInit ==
    \E n \in 0..MaxTopKeywords :
        \E reg \in [1..n -> RegistryRows], score \in [1..n -> 0..MaxTopScore] :
            /\ keywords = [k \in AllKeywords |->
                              IF \E i \in 1..n : KeywordNames[i] = k
                              THEN reg[CHOOSE i \in 1..n : KeywordNames[i] = k]
                              ELSE NoRow]
            /\ trend_scores = ScorePairs(n, score)

\* the spec's example: ten macro keywords k1..k10 and two micro keywords k11, k12,
\* all active, the micro scores below, among or above the macro ones
TopExampleInit ==
    \E base \in {0, 50, 200} :
        /\ keywords = [k \in AllKeywords |->
                          [source |-> "seed", status |-> "active",
                           scale |-> IF k \in {"k11", "k12"} THEN "micro" ELSE "macro",
                           last_searched_at |-> -1]]
        /\ trend_scores =
               ScorePairs(12, [i \in 1..12 |-> IF i <= 10 THEN 10 * (11 - i)
                                               ELSE base + (12 - i)])

TopInit ==
    /\ trend_data = <<>>
    /\ now = 0
    /\ TopSmallInit \/ TopExampleInit
    /\ top_period \in {7, 14}
    /\ top_result = <<>>
    /\ top_pc = "call"

CallGetTopTrends ==
    /\ top_pc = "call"
    /\ top_result' = get_top_trends(top_period, TopLimit, trend_scores, keywords)
    /\ top_pc' = "returned"
    /\ UNCHANGED <<top_period, dbVars, serviceVars, growthVars, lifecycleVars, compositeVars,
                 registryVars, workerVars>>

-----------------------------------------------------------------------------
(* The keyword registry: trends/router.py, scheduler/jobs.py,               *)
(* scrapers/discovery.py                                                    *)

\* the variables of the single calls of the pure functions
callVars == <<growthVars, lifecycleVars, compositeVars, topVars>>

\* the keywords listed in seed_keywords.json
SeedKeywords == {"k1"}

\* jobs.py:113: timedelta(days=30), in hours
ExpiryHours == 24 * 30

\* the clock moves in steps of 16 days: what was searched at one instant is
\* older than the expiry period two steps later, not one step later
ClockStep == 24 * 16

RegistryQuiet ==
    /\ classify_pending = {}
    /\ response = NULL

\* no reader of trend_scores has run
NoRead == [expected |-> FALSE, found |-> FALSE, in_gap |-> FALSE]

WorkersQuiet ==
    /\ db_writer = NULL
    /\ db_pending = <<>>
    /\ threads = <<>>
    /\ seen = <<>>
    /\ scored = {}
    /\ score_read = NoRead

JobsQuiet ==
    /\ job_pc = "idle"
    /\ job_keywords = <<>>
    /\ job_i = 0
    /\ job_log = {}

\* config.py:14-20: the credentials default to the empty string
SettingsFields == {"ebay_app_id", "ebay_cert_id", "etsy_api_key"}

NoCredentials == [f \in SettingsFields |-> ""]

\* reading settings.<field>: a field the class does not declare raises
GetSetting(config, field) ==
    IF field \in DOMAIN config THEN config[field] ELSE "AttributeError"

DiscoveryQuiet ==
    /\ disc_candidates = <<>>
    /\ disc_replies = <<>>

\* what a response carries before it is built
NoBody == [points |-> 0, scored |-> FALSE]

NoThread == [pc |-> "none", keyword |-> NULL]

RequestQuiet ==
    /\ req_pc = "off"
    /\ req_endpoint = NULL
    /\ req_keyword = NULL
    /\ req_fresh = FALSE
    /\ req_waited = 0
    /\ req_body = NoBody
    /\ ondemand = NoThread
    /\ user_comparisons = {}

\* forecast_search_volume is not called
NoForecast == [insufficient_data |-> FALSE, forecast |-> <<>>, fit_window_days |-> 0,
               model |-> "none"]

ForecastQuiet ==
    /\ fc_pc = "off"
    /\ fc_historical = <<>>
    /\ fc_horizon = 0
    /\ fc_result = NoForecast

\* scrape_google_trends is not called
RetryQuiet ==
    /\ gt_pc = "off"
    /\ gt_retries = 0
    /\ gt_attempt = 0
    /\ gt_outcomes = <<>>
    /\ gt_slept = <<>>
    /\ gt_result = NULL

\* the handler threads of the pool
Handlers == {"h1", "h2"}

\* a handler thread that serves no request
IdleHandler == [pc |-> "idle", endpoint |-> NULL, keyword |-> NULL, count |-> 0,
                waited |-> 0, thread |-> 0, status |-> NULL]
OffHandler == [pc |-> "off", endpoint |-> NULL, keyword |-> NULL, count |-> 0,
               waited |-> 0, thread |-> 0, status |-> NULL]

\* no request is served by the pool
HandlersQuiet ==
    /\ handlers = [h \in Handlers |-> OffHandler]
    /\ scrape_threads = <<>>

EndpointsQuiet == ForecastQuiet /\ RetryQuiet /\ HandlersQuiet

ServiceQuiet ==
    /\ EndpointsQuiet
    /\ JobsQuiet
    /\ settings = NoCredentials
    /\ DiscoveryQuiet
    /\ RequestQuiet

\* time passes
Tick ==
    /\ now < MaxClockSteps * ClockStep
    /\ now' = now + ClockStep
    /\ UNCHANGED <<trend_data, keywords, trend_scores, callVars, serviceVars, registryVars, workerVars>>

\* what the collaborator answers to the classification prompt; "error" stands
\* for a call that raises
ScaleReplies == {"macro", "micro", "error"}

\* discovery.py:122-156.  config.py:5-21: Settings has no field
\* anthropic_api_key, so the read on line 127 raises AttributeError before the
\* try block is entered
classify_keyword_scale(keyword, reply) ==
    LET anthropic_api_key == GetSetting(settings, "anthropic_api_key")
    IN  IF anthropic_api_key = "AttributeError" THEN "AttributeError"
        ELSE IF anthropic_api_key = "" THEN "macro"
        ELSE IF reply = "error" THEN "macro"
        ELSE IF reply = "micro" THEN "micro" ELSE "macro"

\* what the collaborator answers to the propose prompt and to the confirm prompt
SimilarReplies ==
    [propose : {"none", "k1", "k2", "error"}, confirm : {"YES", "NO", "error"}]

\* discovery.py:35-119 with confirm=True; kwtable is the table as the connection
\* of the caller sees it.  The read of line 41 comes before any query.
find_similar_keyword(keyword, kwtable, reply) ==
    LET anthropic_api_key == GetSetting(settings, "anthropic_api_key")
        existing == {k \in DOMAIN kwtable :
                        kwtable[k] # NoRow /\ kwtable[k].status # "inactive" /\ k # keyword}
    IN  IF anthropic_api_key = "AttributeError" THEN "AttributeError"
        ELSE IF anthropic_api_key = "" THEN NULL
        ELSE IF existing = {} THEN NULL
        ELSE IF reply.propose \in {"error", "none"} THEN NULL
        ELSE IF reply.propose \notin existing THEN NULL
        ELSE IF reply.confirm = "YES" THEN reply.propose
        ELSE NULL

\* a slip: INSERT OR REPLACE
SeedRow_replace(existing) ==
    [source |-> "seed", status |-> "active", scale |-> NULL, last_searched_at |-> -1]

\* discovery.py:278-281: INSERT OR IGNORE under UNIQUE(keyword)
\* (database.py:33); the row of a seed keyword after the statement
SeedRow(existing) ==
    IF existing = NoRow
    THEN [source |-> "seed", status |-> "active", scale |-> NULL, last_searched_at |-> -1]
    ELSE existing

\* discovery.py:269-290: INSERT OR IGNORE of every seed keyword
load_seed_keywords ==
    /\ keywords' = [k \in DOMAIN keywords |->
                       IF k \in SeedKeywords THEN SeedRow(keywords[k]) ELSE keywords[k]]
    /\ response' = "loaded"
    /\ UNCHANGED <<trend_data, trend_scores, now, classify_pending, callVars, serviceVars, workerVars>>

\* a slip: the time of the search is stored only for a new keyword
TrackedRow_no_touch(existing, t) ==
    IF existing # NoRow
    THEN [existing EXCEPT !.status = IF @ = "inactive" THEN "active" ELSE @]
    ELSE [source |-> "user_search", status |-> "active", scale |-> NULL,
          last_searched_at |-> t]

\* router.py:94-107: the row of the keyword after the UPDATE or the INSERT
TrackedRow(existing, t) ==
    IF existing # NoRow
    THEN [existing EXCEPT !.last_searched_at = t,
                          !.status = IF @ = "inactive" THEN "active" ELSE @]
    ELSE [source |-> "user_search", status |-> "active", scale |-> NULL,
          last_searched_at |-> t]

\* router.py:85-121 without the return: the registry is updated and committed,
\* the _classify thread is started
EnsureTracked(keyword) ==
    LET existing == keywords[keyword]
        needs_classification == IF existing # NoRow THEN existing.scale = NULL ELSE TRUE
    IN  /\ keywords' = [keywords EXCEPT ![keyword] = TrackedRow(existing, now)]
        /\ classify_pending' = IF needs_classification
                               THEN classify_pending \cup {keyword}
                               ELSE classify_pending

\* router.py:85-121, called by search_trend and by add_to_comparison
_ensure_keyword_tracked(keyword) ==
        /\ EnsureTracked(keyword)
        /\ response' = "tracked"
        /\ UNCHANGED <<trend_data, trend_scores, now, callVars, serviceVars, workerVars>>

\* router.py:112-118: the detached thread; the UPDATE is reached only when
\* classify_keyword_scale returns a scale
_classify(keyword, reply) ==
    /\ keyword \in classify_pending
    /\ classify_pending' = classify_pending \ {keyword}
    /\ LET new_scale == classify_keyword_scale(keyword, reply)
       IN  keywords' = IF new_scale \in {"macro", "micro"} /\ keywords[keyword] # NoRow
                       THEN [keywords EXCEPT ![keyword].scale = new_scale]
                       ELSE keywords
    /\ UNCHANGED <<trend_data, trend_scores, now, response, callVars, serviceVars, workerVars>>

\* router.py:450-457
activate_keyword(keyword) ==
    /\ keywords' = IF keywords[keyword] # NoRow
                   THEN [keywords EXCEPT ![keyword].status = "active"]
                   ELSE keywords
    /\ response' = "200"
    /\ UNCHANGED <<trend_data, trend_scores, now, classify_pending, callVars, serviceVars, workerVars>>

\* router.py:460-481
remove_keyword(keyword) ==
    LET row == keywords[keyword]
    IN  /\ IF row = NoRow
           THEN response' = "404" /\ UNCHANGED keywords
           ELSE IF row.source = "seed"
                THEN response' = "403" /\ UNCHANGED keywords
                ELSE /\ keywords' = [keywords EXCEPT ![keyword].status = "inactive"]
                     /\ response' = "200"
        /\ UNCHANGED <<trend_data, trend_scores, now, classify_pending, callVars, serviceVars, workerVars>>

\* a slip: the origin of the keyword is not looked at
Stale_any_source(row, cutoff) ==
    /\ row.status = "active"
    /\ (row.last_searched_at = -1 \/ row.last_searched_at < cutoff)

\* jobs.py:116: the WHERE clause of the UPDATE
Stale(row, cutoff) ==
    /\ row.source = "user_search"
    /\ row.status = "active"
    /\ (row.last_searched_at = -1 \/ row.last_searched_at < cutoff)

\* jobs.py:111-123
expire_stale_keywords ==
    LET cutoff == now - ExpiryHours
    IN  /\ keywords' = [k \in DOMAIN keywords |->
                           IF Stale(keywords[k], cutoff)
                           THEN [keywords[k] EXCEPT !.status = "inactive"]
                           ELSE keywords[k]]
        /\ response' = "expired"
        /\ UNCHANGED <<trend_data, trend_scores, now, classify_pending, callVars, serviceVars, workerVars>>

\* the orders in which the loop can visit a set of candidates
CandidateLists == {<<>>, <<"k1">>, <<"k2">>, <<"k1", "k2">>, <<"k2", "k1">>}

\* discovery.py:340-356: the loop over the candidates on the connection that is
\* committed at line 358; an exception of find_similar_keyword leaves it
RECURSIVE DiscoveryLoop(_, _, _)
DiscoveryLoop(kwtable, candidates, replies) ==
    IF candidates = <<>> THEN [raised |-> FALSE, table |-> kwtable]
    ELSE LET candidate == Head(candidates)
             similar == find_similar_keyword(candidate, kwtable, replies[candidate])
         IN  IF kwtable[candidate] # NoRow
             THEN DiscoveryLoop(kwtable, Tail(candidates), replies)
             ELSE IF similar = "AttributeError"
             THEN [raised |-> TRUE, table |-> kwtable]
             ELSE IF similar # NULL
             THEN DiscoveryLoop(kwtable, Tail(candidates), replies)
             ELSE DiscoveryLoop([kwtable EXCEPT ![candidate] =
                                    [source |-> "auto_discovered",
                                     status |-> "pending_review", scale |-> NULL,
                                     last_searched_at |-> -1]],
                                Tail(candidates), replies)

\* discovery.py:321-362: an exception leaves the function before its commit
run_discovery(all_candidates, replies) ==
    LET result == DiscoveryLoop(keywords, all_candidates, replies)
    IN  /\ IF result.raised
           THEN response' = "AttributeError" /\ UNCHANGED keywords
           ELSE keywords' = result.table /\ response' = "discovered"
        /\ UNCHANGED <<trend_data, trend_scores, now, classify_pending, callVars, serviceVars,
                       workerVars>>

\* the registries a discovery run can find: the seed loaded or not, a keyword
\* of a user active or removed, a keyword stored for review by an earlier run
DiscoveryInit ==
    /\ trend_data = <<>>
    /\ trend_scores = <<>>
    /\ now = 0
    /\ \E r1 \in {NoRow,
                   [source |-> "seed", status |-> "active", scale |-> NULL,
                    last_searched_at |-> -1],
                   [source |-> "user_search", status |-> "inactive", scale |-> NULL,
                    last_searched_at |-> 0]},
          r2 \in {NoRow,
                   [source |-> "user_search", status |-> "active", scale |-> NULL,
                    last_searched_at |-> 0],
                   [source |-> "user_search", status |-> "inactive", scale |-> NULL,
                    last_searched_at |-> 0],
                   [source |-> "auto_discovered", status |-> "pending_review",
                    scale |-> NULL, last_searched_at |-> -1]} :
           keywords = [k \in Keywords |-> IF k = "k1" THEN r1 ELSE r2]
    /\ RegistryQuiet
    /\ disc_candidates \in CandidateLists
    /\ disc_replies \in [Keywords -> SimilarReplies]

\* jobs.py:101-103: the discovery job calls run_discovery
CallRunDiscovery ==
    /\ response = NULL
    /\ run_discovery(disc_candidates, disc_replies)

\* UPDATE t SET keyword = target WHERE keyword = source
Relabel(rows, source, target) ==
    [i \in 1..Len(rows) |->
        IF rows[i].keyword = source THEN [rows[i] EXCEPT !.keyword = target] ELSE rows[i]]

\* router.py:65-82, followed by the commit of the connection it was given
_merge_keyword_data(source, target) ==
    /\ trend_data' = Relabel(trend_data, source, target)
    /\ trend_scores' = Relabel(trend_scores, source, target)
    /\ keywords' = IF keywords[source] # NoRow
                   THEN [keywords EXCEPT ![source].status = "inactive"]
                   ELSE keywords
    /\ response' = "merged"
    /\ UNCHANGED <<now, classify_pending, callVars, serviceVars, workerVars>>

RegistryInit == DbEmpty /\ RegistryQuiet

\* database.py:30-39: the rows the registry can hold for a keyword, never
\* searched or searched at time 0
RegistryShapes ==
    {NoRow}
    \cup [source : {"seed", "user_search", "auto_discovered"},
          status : {"active", "inactive", "pending_review"},
          scale : {NULL},
          last_searched_at : {-1, 0}]

\* a registry left by earlier runs of the program
StoredRegistryInit ==
    /\ trend_data = <<>>
    /\ trend_scores = <<>>
    /\ now = 0
    /\ keywords \in [Keywords -> RegistryShapes]
    /\ RegistryQuiet

-----------------------------------------------------------------------------
(* scrapers/google_trends.py: the search_volume upsert.  Table trend_data   *)
(* holds here the rows the upsert query can match; the rows written by the  *)
(* region blocks (lines 61-97) carry a region and another metric.           *)

Threads == {"t1", "t2"}

Dates == 1..MaxDates

Readings == 0..MaxReading

\* interest_over_time(): a reading for each date of the frame; the empty frame
\* stands for an empty answer and for an attempt that failed before line 33
Frames == UNION {[S -> Readings] : S \in SUBSET Dates}

\* google_trends.py:40-43: rowid of the first row of the series for date, 0 if none
ExistingPoint(data, keyword, date) ==
    LET hits == {i \in 1..Len(data) :
                    /\ data[i].keyword = keyword
                    /\ data[i].source = "google_trends"
                    /\ data[i].metric = "search_volume"
                    /\ data[i].recorded_at = date
                    /\ data[i].region = NULL}
    IN  IF hits = {} THEN 0 ELSE CHOOSE i \in hits : \A j \in hits : i <= j

\* a slip: last write wins
ShouldOverwrite_last_write_wins(existing_value, value) == TRUE

\* google_trends.py:46
ShouldOverwrite(existing_value, value) == existing_value = 0 \/ value > existing_value

\* google_trends.py:44-55, for the row (rowid, existing_value) the SELECT returned
UpsertPoint(data, keyword, date, value, rowid, existing_value) ==
    IF rowid # 0
    THEN IF ShouldOverwrite(existing_value, value)
         THEN [data EXCEPT ![rowid].value = value]
         ELSE data
    ELSE Append(data, [keyword |-> keyword, source |-> "google_trends",
                       metric |-> "search_volume", value |-> value, region |-> NULL,
                       recorded_at |-> date])

\* google_trends.py:35-55: the loop over the rows of the frame, from date on
RECURSIVE UpsertFrame(_, _, _, _)
UpsertFrame(data, keyword, df, date) ==
    IF date > MaxDates THEN data
    ELSE IF date \notin DOMAIN df THEN UpsertFrame(data, keyword, df, date + 1)
    ELSE LET rowid == ExistingPoint(data, keyword, date)
             existing_value == IF rowid = 0 THEN 0 ELSE data[rowid].value
         IN  UpsertFrame(UpsertPoint(data, keyword, date, df[date], rowid, existing_value),
                         keyword, df, date + 1)

\* the readings delivered so far, with those of frame df
SeenWith(df) ==
    [d \in Dates |-> IF d \in DOMAIN df THEN seen[d] \cup {df[d]} ELSE seen[d]]

\* the keyword whose series is scraped; the table may hold a point of another one
ScrapedKeyword == "k1"

UpsertInit ==
    /\ trend_data \in {<<>>,
                       <<[keyword |-> "k2", source |-> "google_trends",
                          metric |-> "search_volume", value |-> MaxReading,
                          region |-> NULL, recorded_at |-> 1]>>}
    /\ keywords = [k \in Keywords |-> NoRow]
    /\ trend_scores = <<>>
    /\ now = 0
    /\ db_writer = NULL
    /\ db_pending = <<>>
    /\ threads = <<>>
    /\ seen = [d \in Dates |-> {}]
    /\ scored = {}
    /\ score_read = NoRead

\* google_trends.py:12-57: one scrape that runs alone, from the frame to the commit
scrape_google_trends(keyword, df) ==
    /\ trend_data' = UpsertFrame(trend_data, keyword, df, 1)
    /\ seen' = SeenWith(df)
    /\ UNCHANGED <<keywords, trend_scores, now, db_writer, db_pending, threads, scored,
                   score_read, callVars, serviceVars, registryVars>>

\* ---- the same scrape on worker threads (jobs.py:23-38, 55-91, 126-136), statement
\* ---- by statement

ScrapeIdle == [pc |-> "idle", keyword |-> NULL, df |-> <<>>, date |-> 0, rowid |-> 0,
               value |-> 0]

\* the table as the connection of thread t reads it
View(t, committed) == IF db_writer = t THEN db_pending ELSE committed

\* the next date of the frame after date, 0 when there is none
NextDate(df, date) ==
    LET later == {d \in DOMAIN df : d > date}
    IN  IF later = {} THEN 0 ELSE CHOOSE d \in later : \A e \in later : d <= e

ScrapeInit ==
    /\ DbEmpty
    /\ db_writer = NULL
    /\ db_pending = <<>>
    /\ threads = [t \in Threads |-> ScrapeIdle]
    /\ seen = <<>>
    /\ scored = {}
    /\ score_read = NoRead

\* google_trends.py:28-34: the frame has arrived and is not empty
scrape_begin(t, keyword, df) ==
    /\ threads[t].pc = "idle"
    /\ DOMAIN df # {}
    /\ threads' = [threads EXCEPT ![t] =
                      [pc |-> "select", keyword |-> keyword, df |-> df,
                       date |-> NextDate(df, 0), rowid |-> 0, value |-> 0]]
    /\ UNCHANGED <<dbVars, db_writer, db_pending, seen, scored, score_read, callVars, serviceVars,
                   registryVars>>

\* google_trends.py:40-43
upsert_select(t) ==
    LET th == threads[t]
        data == View(t, trend_data)
        rowid == ExistingPoint(data, th.keyword, th.date)
    IN  /\ th.pc = "select"
        /\ threads' = [threads EXCEPT ![t].pc = "write", ![t].rowid = rowid,
                                      ![t].value = IF rowid = 0 THEN 0 ELSE data[rowid].value]
        /\ UNCHANGED <<dbVars, db_writer, db_pending, seen, scored, score_read, callVars, serviceVars,
                       registryVars>>

\* google_trends.py:44-55: an UPDATE or INSERT opens the transaction and takes the
\* write lock, waiting while another connection holds it
upsert_write(t) ==
    LET th == threads[t]
        writes == th.rowid = 0 \/ ShouldOverwrite(th.value, th.df[th.date])
        next == NextDate(th.df, th.date)
    IN  /\ th.pc = "write"
        /\ writes => db_writer \in {NULL, t}
        /\ IF writes
           THEN /\ db_writer' = t
                /\ db_pending' = UpsertPoint(View(t, trend_data), th.keyword, th.date,
                                             th.df[th.date], th.rowid, th.value)
           ELSE UNCHANGED <<db_writer, db_pending>>
        /\ threads' = [threads EXCEPT ![t].pc = IF next = 0 THEN "commit" ELSE "select",
                                      ![t].date = IF next = 0 THEN th.date ELSE next,
                                      ![t].rowid = 0, ![t].value = 0]
        /\ UNCHANGED <<dbVars, seen, scored, score_read, callVars, serviceVars, registryVars>>

\* google_trends.py:56-57
upsert_commit(t) ==
    /\ threads[t].pc = "commit"
    /\ IF db_writer = t
       THEN trend_data' = db_pending /\ db_writer' = NULL /\ db_pending' = <<>>
       ELSE UNCHANGED <<trend_data, db_writer, db_pending>>
    /\ threads' = [threads EXCEPT ![t] = ScrapeIdle]
    /\ UNCHANGED <<keywords, trend_scores, now, seen, scored, score_read, callVars, serviceVars,
                   registryVars>>

\* google_trends.py:102-104: an exception inside the loop (the busy timeout of a
\* locked database, an I/O error) ends the attempt; the connection is dropped
\* without commit and SQLite rolls its transaction back
scrape_fails(t) ==
    /\ threads[t].pc \in {"select", "write", "commit"}
    /\ IF db_writer = t
       THEN db_writer' = NULL /\ db_pending' = <<>>
       ELSE UNCHANGED <<db_writer, db_pending>>
    /\ threads' = [threads EXCEPT ![t] = ScrapeIdle]
    /\ UNCHANGED <<dbVars, seen, scored, score_read, callVars, serviceVars, registryVars>>

-----------------------------------------------------------------------------
(* trends/service.py: compute_and_store_scores on worker threads            *)

\* service.py:153
PeriodList == <<7, 14, 30, 60, 90>>

\* rowids of the score rows of (keyword, period)
ScoreRows(scores, keyword, period) ==
    {i \in 1..Len(scores) : scores[i].keyword = keyword /\ scores[i].period_days = period}

\* a slip: the old row is left in place
DeleteOldScore_skipped(scores, keyword, period) == scores

\* service.py:157-160
DeleteOldScore(scores, keyword, period) ==
    LET Kept(r) == ~(r.keyword = keyword /\ r.period_days = period)
    IN  SelectSeq(scores, Kept)

\* service.py:162-165
ScoreRow(keyword, period, result, computed_at) ==
    [keyword |-> keyword, period_days |-> period, volume_growth |-> result.volume_growth,
     price_growth |-> result.price_growth, composite_score |-> result.composite_score,
     lifecycle_stage |-> result.lifecycle_stage, computed_at |-> computed_at]

\* a slip: what was written before the exception stays
ScoresAfterFailure_partial_commit(committed, pending) == pending

\* service.py:154-168: the only commit follows the loop, so an exception leaves
\* the function without commit and the dropped connection is rolled back
ScoresAfterFailure(committed, pending) == committed

ScoresIdle(outcome) ==
    [pc |-> "idle", keyword |-> NULL, i |-> 0, result |-> NoResult, computed_at |-> 0,
     outcome |-> outcome]

ScoresInit ==
    /\ trend_data = <<>>
    /\ keywords = [k \in Keywords |->
                      [source |-> "seed", status |-> "active", scale |-> NULL,
                       last_searched_at |-> -1]]
    /\ trend_scores = <<>>
    /\ now = 0
    /\ db_writer = NULL
    /\ db_pending = <<>>
    /\ threads = [t \in Threads |-> ScoresIdle("none")]
    /\ seen = <<>>
    /\ scored = {}
    /\ score_read = NoRead

\* the runs of compute_and_store_scores for one keyword, one after the other:
\* search volumes of k1 recorded around the start and the midpoint of the
\* 14-day window, so that the scores of the periods differ
ScoredKeyword == "k1"

ScoredSamples ==
    {r \in SampledRows(14, LongestWindow) :
        /\ r.keyword = ScoredKeyword
        /\ r.kind = <<"google_trends", "search_volume">>
        /\ r.value \in 1..MaxScoredValue}

AccelInit ==
    /\ now = LongestWindow
    /\ \E rows \in SeqsUpTo(ScoredSamples, 2) :
           trend_data = [i \in 1..Len(rows) |-> RowOf(rows[i])]
    /\ keywords = [k \in Keywords |->
                      [source |-> "seed", status |-> "active", scale |-> NULL,
                       last_searched_at |-> -1]]
    /\ trend_scores = <<>>
    /\ db_writer = NULL
    /\ db_pending = <<>>
    /\ threads = [t \in Threads |-> ScoresIdle("none")]
    /\ seen = <<>>
    /\ scored = {}
    /\ score_read = NoRead

\* service.py:150-151
scores_begin(t, keyword) ==
    /\ threads[t].pc = "idle"
    /\ threads' = [threads EXCEPT ![t] =
                      [pc |-> "compute", keyword |-> keyword, i |-> 1, result |-> NoResult,
                       computed_at |-> now, outcome |-> "none"]]
    /\ UNCHANGED <<dbVars, db_writer, db_pending, seen, scored, score_read, callVars, serviceVars,
                   registryVars>>

\* service.py:154: compute_composite_score reads through a connection of its own
scores_compute(t) ==
    LET th == threads[t]
    IN  /\ th.pc = "compute"
        /\ \E prev_first \in PrevFirstChoices(trend_scores, th.keyword) :
               threads' = [threads EXCEPT
                              ![t].pc = "delete",
                              ![t].result = compute_composite_score(
                                                th.keyword, PeriodList[th.i], trend_data,
                                                keywords, trend_scores, now, prev_first)]
        /\ UNCHANGED <<dbVars, db_writer, db_pending, seen, scored, score_read, callVars, serviceVars,
                       registryVars>>

\* service.py:157-160: the DELETE opens the transaction and takes the write lock,
\* waiting while another connection holds it
scores_delete(t) ==
    LET th == threads[t]
    IN  /\ th.pc = "delete"
        /\ db_writer \in {NULL, t}
        /\ db_writer' = t
        /\ db_pending' = DeleteOldScore(View(t, trend_scores), th.keyword, PeriodList[th.i])
        /\ threads' = [threads EXCEPT ![t].pc = "insert"]
        /\ UNCHANGED <<dbVars, seen, scored, score_read, callVars, serviceVars, registryVars>>

\* service.py:162-165
scores_insert(t) ==
    LET th == threads[t]
    IN  /\ th.pc = "insert"
        /\ db_pending' = Append(db_pending,
                                ScoreRow(th.keyword, PeriodList[th.i], th.result,
                                         th.computed_at))
        /\ threads' = [threads EXCEPT
                          ![t].pc = IF th.i = Len(PeriodList) THEN "commit" ELSE "compute",
                          ![t].i = IF th.i = Len(PeriodList) THEN th.i ELSE th.i + 1]
        /\ UNCHANGED <<dbVars, db_writer, seen, scored, score_read, callVars, serviceVars, registryVars>>

\* service.py:167-168
scores_commit(t) ==
    /\ threads[t].pc = "commit"
    /\ trend_scores' = db_pending
    /\ db_writer' = NULL
    /\ db_pending' = <<>>
    /\ scored' = scored \cup {threads[t].keyword}
    /\ threads' = [threads EXCEPT ![t] = ScoresIdle("none")]
    /\ UNCHANGED <<trend_data, keywords, now, seen, score_read, callVars, serviceVars, registryVars>>

\* an exception in compute_composite_score or in a statement (the busy timeout of
\* a locked database): jobs.py:47-50 logs it, the thread of jobs.py:126-136 ends
scores_fail(t) ==
    /\ threads[t].pc \in {"compute", "delete", "insert"}
    /\ IF db_writer = t
       THEN /\ trend_scores' = ScoresAfterFailure(trend_scores, db_pending)
            /\ db_writer' = NULL
            /\ db_pending' = <<>>
            /\ threads' = [threads EXCEPT ![t] = ScoresIdle("rolled_back")]
       ELSE /\ UNCHANGED <<trend_scores, db_writer, db_pending>>
            /\ threads' = [threads EXCEPT ![t] = ScoresIdle("none")]
    /\ UNCHANGED <<trend_data, keywords, now, seen, scored, score_read, callVars, serviceVars,
                   registryVars>>

\* service.py:223-226: get_keyword_details reads the score of (keyword, period)
\* through a connection of its own, which sees committed rows only
read_score(keyword, period) ==
    /\ score_read' =
           [expected |-> keyword \in scored,
            found |-> ScoreRows(trend_scores, keyword, period) # {},
            in_gap |-> /\ db_writer # NULL
                       /\ ScoreRows(trend_scores, keyword, period) # {}
                       /\ ScoreRows(db_pending, keyword, period) = {}]
    /\ UNCHANGED <<dbVars, db_writer, db_pending, threads, seen, scored, callVars, serviceVars,
                   registryVars>>

-----------------------------------------------------------------------------
(* scheduler/jobs.py: the job scrape_and_score, one loop iteration at a time *)

\* the order in which a query without ORDER BY returns the rows of keywords
KeywordOrder == <<"k1", "k2">>

\* discovery.py:293-298
get_active_keywords(kwtable) ==
    LET Active(k) == kwtable[k] # NoRow /\ kwtable[k].status = "active"
    IN  SelectSeq(KeywordOrder, Active)

\* jobs.py:58: timedelta(hours=24)
CatchupHours == 24

\* the clock of the job runs: eight o'clock of the fourth day
JobClock == 24 * 3 + 8

\* the midnights of the last two days: only the later one is within CatchupHours
\* of JobClock
JobDays == {JobClock - 32, JobClock - 8}

\* what scrape_google_trends can meet: three failed attempts (it returns False),
\* an empty frame, a frame that ends the day before, a frame that ends today
GoogleFailed == [success |-> FALSE, df |-> <<>>, regions |-> FALSE]

\* an attempt that reached line 100 with frame df; regions tells whether a
\* region block (lines 62-97) stored a row
GoogleFrame(df, regions) == [success |-> TRUE, df |-> df, regions |-> regions]

GoogleOutcomes ==
    {GoogleFailed, GoogleFrame(<<>>, FALSE),
     GoogleFrame([d \in {JobClock - 32} |-> MaxReading], TRUE),
     GoogleFrame([d \in JobDays |-> MaxReading], TRUE)}

\* google_trends.py:12-22: True when one attempt reached line 100
GoogleSuccess(outcome) == outcome.success

\* google_trends.py:35-55 for a frame indexed by hours
RECURSIVE UpsertDays(_, _, _, _)
UpsertDays(data, keyword, df, days) ==
    IF days = {} THEN data
    ELSE LET date == CHOOSE d \in days : \A e \in days : d <= e
             rowid == ExistingPoint(data, keyword, date)
             existing_value == IF rowid = 0 THEN 0 ELSE data[rowid].value
         IN  UpsertDays(UpsertPoint(data, keyword, date, df[date], rowid, existing_value),
                        keyword, df, days \ {date})

\* google_trends.py:66-75: a row of a region, recorded at the time of the scrape
RegionRows(data, keyword, regions, t) ==
    IF regions
    THEN Append(data, [keyword |-> keyword, source |-> "google_trends",
                       metric |-> "search_volume_region", value |-> 1, region |-> "US-CA",
                       recorded_at |-> t])
    ELSE data

\* the rows one scrape of Google Trends at time t leaves in trend_data
GoogleRows(data, keyword, outcome, t) ==
    IF GoogleSuccess(outcome)
    THEN RegionRows(UpsertDays(data, keyword, outcome.df, DOMAIN outcome.df), keyword,
                    outcome.regions, t)
    ELSE data

\* jobs.py:31-35: the marketplace scrapers, in the order of the calls
Marketplaces == <<"ebay", "reddit", "depop", "etsy", "poshmark">>

\* the first row each marketplace scraper inserts when it finds listings or posts
MarketMetric ==
    [ebay |-> "avg_price", reddit |-> "mention_count", depop |-> "listing_count",
     etsy |-> "avg_price", poshmark |-> "avg_price"]

\* which marketplace scrapers stored rows: none (each caught its exception and
\* returned False), eBay only, those without credentials, or all of them
MarketOutcomes ==
    {{}, {"ebay"}, {"reddit", "depop", "poshmark"},
     {"ebay", "reddit", "depop", "etsy", "poshmark"}}

\* ebay.py:31-34, 82-84, etsy.py:20-22: without its credentials a scraper
\* returns True at once
Configured(config) ==
    {"reddit", "depop", "poshmark"}
    \cup (IF config["ebay_app_id"] # "" /\ config["ebay_cert_id"] # "" THEN {"ebay"} ELSE {})
    \cup (IF config["etsy_api_key"] # "" THEN {"etsy"} ELSE {})

\* ebay.py:161-189, reddit.py:77-97, depop.py:82-103, etsy.py:77-112,
\* poshmark.py:62-89: rows recorded at the time of the scrape
RECURSIVE MarketRows(_, _, _, _, _)
MarketRows(data, keyword, sources, stored, t) ==
    IF sources = <<>> THEN data
    ELSE MarketRows(IF Head(sources) \in stored
                    THEN Append(data, [keyword |-> keyword, source |-> Head(sources),
                                       metric |-> MarketMetric[Head(sources)],
                                       value |-> 1, region |-> NULL, recorded_at |-> t])
                    ELSE data,
                    keyword, Tail(sources), stored, t)

\* service.py:153-165: the loop over the periods on the connection that is
\* committed at line 167; compute_composite_score reads the committed scores
RECURSIVE StoreScores(_, _, _, _, _, _, _, _)
StoreScores(pending, i, keyword, data, kwtable, committed, t, prev_first) ==
    IF i > Len(PeriodList) THEN pending
    ELSE LET result == compute_composite_score(keyword, PeriodList[i], data, kwtable,
                                               committed, t, prev_first[i])
         IN  StoreScores(Append(DeleteOldScore(pending, keyword, PeriodList[i]),
                                ScoreRow(keyword, PeriodList[i], result, t)),
                         i + 1, keyword, data, kwtable, committed, t, prev_first)

\* what a log of the job holds: the keywords a function listed, and how the
\* iteration of each one ended
Logged(fn, keyword, event) == [fn |-> fn, keyword |-> keyword, event |-> event]

Listed(fn, list) == {Logged(fn, list[i], "listed") : i \in 1..Len(list)}

\* a slip: the call is not wrapped, the exception leaves the loop and the job
OnScoreError_propagate(fn) == "failed"

\* jobs.py:47-50, 85-88: the exception is logged, the loop goes on
OnScoreError(fn) == fn

JobInit ==
    /\ now = JobClock
    /\ \E st \in {"active", "inactive", "pending_review"} :
           keywords = [k \in Keywords |->
                          IF k = "k1"
                          THEN [source |-> "seed", status |-> "active", scale |-> NULL,
                                last_searched_at |-> -1]
                          ELSE [source |-> IF st = "pending_review" THEN "auto_discovered"
                                           ELSE "user_search",
                                status |-> st, scale |-> NULL, last_searched_at |-> -1]]
    /\ \E day1 \in JobDays \cup {-1}, day2 \in JobDays \cup {-1} :
           trend_data =
               GoogleRows(GoogleRows(<<>>, "k1",
                                     IF day1 = -1 THEN GoogleFailed
                                     ELSE GoogleFrame([d \in {day1} |-> 1], FALSE), 0),
                          "k2",
                          IF day2 = -1 THEN GoogleFailed
                          ELSE GoogleFrame([d \in {day2} |-> 1], FALSE), 0)
    /\ trend_scores = <<>>
    /\ JobsQuiet
    /\ settings \in {NoCredentials, [f \in SettingsFields |-> "set"]}

\* jobs.py:94-96, 25-26: the job starts and scrape_all_sources lists the keywords
scrape_and_score ==
    /\ job_pc = "idle"
    /\ job_pc' = "scrape_all_sources"
    /\ job_keywords' = get_active_keywords(keywords)
    /\ job_i' = 1
    /\ job_log' = Listed("scrape_all_sources", get_active_keywords(keywords))
    /\ UNCHANGED <<dbVars, callVars, registryVars, workerVars, notJobVars>>

\* google_trends.py:33-57: the attempt found a frame with rows and committed
\* their points
StoredPoints(outcome) == GoogleSuccess(outcome) /\ DOMAIN outcome.df # {}

\* jobs.py:28-36: one iteration; every scraper catches what it raises
scrape_all_sources(google, stored) ==
    /\ job_pc = "scrape_all_sources"
    /\ job_i <= Len(job_keywords)
    /\ stored \subseteq Configured(settings)
    /\ LET keyword == job_keywords[job_i]
       IN  /\ trend_data' = MarketRows(GoogleRows(trend_data, keyword, google, now), keyword,
                                       Marketplaces, stored, now)
           /\ job_log' = job_log \cup
                  ({Logged("scrape_all_sources", keyword,
                           IF GoogleSuccess(google) THEN "done" ELSE "logged")}
                   \cup (IF StoredPoints(google)
                         THEN {Logged("scrape_all_sources", keyword, "stored")}
                         ELSE {}))
    /\ job_i' = job_i + 1
    /\ UNCHANGED <<keywords, trend_scores, now, job_pc, job_keywords, callVars,
                   registryVars, workerVars, notJobVars>>

\* jobs.py:38, 97, 43-44: the scrape loop is over, compute_all_scores lists the
\* keywords
compute_all_scores_begin ==
    /\ job_pc = "scrape_all_sources"
    /\ job_i > Len(job_keywords)
    /\ job_pc' = "compute_all_scores"
    /\ job_keywords' = get_active_keywords(keywords)
    /\ job_i' = 1
    /\ job_log' = job_log \cup Listed("compute_all_scores", get_active_keywords(keywords))
    /\ UNCHANGED <<dbVars, callVars, registryVars, workerVars, notJobVars>>

\* jobs.py:46-50: one iteration; raised tells whether compute_and_store_scores
\* left by an exception, which rolls its connection back
compute_all_scores(raised) ==
    /\ job_pc = "compute_all_scores"
    /\ job_i <= Len(job_keywords)
    /\ LET keyword == job_keywords[job_i]
       IN  IF raised
           THEN /\ trend_scores' = ScoresAfterFailure(trend_scores, <<>>)
                /\ job_pc' = OnScoreError(job_pc)
                /\ job_log' = job_log \cup {Logged("compute_all_scores", keyword, "logged")}
           ELSE /\ \E prev_first \in [1..Len(PeriodList) ->
                                         PrevFirstChoices(trend_scores, keyword)] :
                       trend_scores' = StoreScores(trend_scores, 1, keyword, trend_data,
                                                   keywords, trend_scores, now, prev_first)
                /\ job_pc' = job_pc
                /\ job_log' = job_log \cup {Logged("compute_all_scores", keyword, "done")}
    /\ job_i' = job_i + 1
    /\ UNCHANGED <<trend_data, keywords, now, job_keywords, callVars, registryVars,
                   workerVars, notJobVars>>

\* jobs.py:60-73: the active keywords without a search_volume point of Google
\* Trends recorded at or after threshold
MissingKeywords(kwtable, data, threshold) ==
    LET Recent(k) == \E i \in 1..Len(data) :
                         /\ data[i].keyword = k
                         /\ data[i].source = "google_trends"
                         /\ data[i].metric = "search_volume"
                         /\ data[i].recorded_at >= threshold
        Missing(k) == kwtable[k] # NoRow /\ kwtable[k].status = "active" /\ ~Recent(k)
    IN  SelectSeq(KeywordOrder, Missing)

\* jobs.py:52, 98, 58-81: the scoring loop is over, the catch-up pass selects
\* its keywords and returns at once when there is none
catchup_google_trends_begin ==
    /\ job_pc = "compute_all_scores"
    /\ job_i > Len(job_keywords)
    /\ LET missing == MissingKeywords(keywords, trend_data, now - CatchupHours)
       IN  /\ job_pc' = IF missing = <<>> THEN "done" ELSE "catchup_google_trends"
           /\ job_keywords' = missing
           /\ job_log' = job_log \cup Listed("catchup_google_trends", missing)
    /\ job_i' = 1
    /\ UNCHANGED <<dbVars, callVars, registryVars, workerVars, notJobVars>>

\* a slip: the scores are recomputed whatever the scrape returned
ShouldRescore_always(success) == TRUE

\* jobs.py:84: if success
ShouldRescore(success) == success

\* jobs.py:82-89: one iteration of the catch-up loop; google_trends.py:19: the
\* scraper logs the scrape that failed
catchup_google_trends(google, raised) ==
    /\ job_pc = "catchup_google_trends"
    /\ job_i <= Len(job_keywords)
    /\ LET keyword == job_keywords[job_i]
           success == GoogleSuccess(google)
           data == GoogleRows(trend_data, keyword, google, now)
           scrape_log == IF success THEN {}
                         ELSE {Logged("catchup_google_trends", keyword, "scrape_failed")}
       IN  /\ trend_data' = data
           /\ IF ~ShouldRescore(success)
              THEN /\ UNCHANGED trend_scores
                   /\ job_pc' = job_pc
                   /\ job_log' = job_log \cup scrape_log \cup
                          {Logged("catchup_google_trends", keyword, "skipped")}
              ELSE IF raised
              THEN /\ trend_scores' = ScoresAfterFailure(trend_scores, <<>>)
                   /\ job_pc' = OnScoreError(job_pc)
                   /\ job_log' = job_log \cup scrape_log \cup
                          {Logged("catchup_google_trends", keyword, "logged")}
              ELSE /\ \E prev_first \in [1..Len(PeriodList) ->
                                            PrevFirstChoices(trend_scores, keyword)] :
                          trend_scores' = StoreScores(trend_scores, 1, keyword, data,
                                                      keywords, trend_scores, now,
                                                      prev_first)
                   /\ job_pc' = job_pc
                   /\ job_log' = job_log \cup scrape_log \cup
                          {Logged("catchup_google_trends", keyword, "done")}
    /\ job_i' = job_i + 1
    /\ UNCHANGED <<keywords, now, job_keywords, callVars, registryVars, workerVars, notJobVars>>

\* jobs.py:91: the catch-up loop is over and the job returns
catchup_google_trends_end ==
    /\ job_pc = "catchup_google_trends"
    /\ job_i > Len(job_keywords)
    /\ job_pc' = "done"
    /\ UNCHANGED <<dbVars, job_keywords, job_i, job_log, callVars, registryVars,
                   workerVars, notJobVars>>

-----------------------------------------------------------------------------
(* scrapers/discovery.py: refine_scale_classifications *)

Squares(values) == [i \in 1..Len(values) |-> values[i] * values[i]]

\* sum((v - mean) ** 2 for v in values) / len(values), for a list that is not empty
Variance(values) ==
    LET n == Len(values)
    IN  Rat(n * sum(Squares(values)) - sum(values) * sum(values), n * n)

\* the square of sum(values) / len(values)
MeanSquared(values) == Rat(sum(values) * sum(values), Len(values) * Len(values))

\* discovery.py:209-220: the search_volume values of the keyword, and its
\* composite scores in hundredths
SvValues(data, keyword) ==
    LET Hit(r) == r.keyword = keyword /\ r.metric = "search_volume"
    IN  ValuesOf(OrderByRecordedAt(SelectSeq(data, Hit)))

ScoreValues(scores, keyword) ==
    LET mine == ScoresOf(scores, keyword)
    IN  [i \in 1..Len(mine) |-> mine[i].composite_score]

\* a slip: one strong signal is enough
RefinedScale_either_signal(sv_values, score_values) ==
    IF Len(sv_values) < 5 \/ Len(score_values) < 3 THEN NULL
    ELSE IF sum(sv_values) = 0 THEN NULL
    ELSE LET cv_squared == FloatDiv(Variance(sv_values), MeanSquared(sv_values))
             score_variance == FloatDiv(Variance(score_values), Float(100 * 100))
         IN  IF FloatGT(cv_squared, FloatMul(Rat(65, 100), Rat(65, 100)))
                \/ FloatGT(score_variance, Float(1500))
             THEN "micro"
             ELSE IF FloatLT(cv_squared, FloatMul(Rat(15, 100), Rat(15, 100)))
                     \/ FloatLT(score_variance, Float(150))
             THEN "macro"
             ELSE NULL

\* discovery.py:226-251: the scale the statistics call for, NULL when the loop
\* goes to the next keyword.  cv = sqrt(variance) / mean with a positive mean is
\* compared with a threshold by comparing the squares.
RefinedScale(sv_values, score_values) ==
    IF Len(sv_values) < 5 \/ Len(score_values) < 3 THEN NULL
    ELSE IF sum(sv_values) = 0 THEN NULL
    ELSE LET cv_squared == FloatDiv(Variance(sv_values), MeanSquared(sv_values))
             score_variance == FloatDiv(Variance(score_values), Float(100 * 100))
         IN  IF FloatGT(cv_squared, FloatMul(Rat(65, 100), Rat(65, 100)))
                /\ FloatGT(score_variance, Float(1500))
             THEN "micro"
             ELSE IF FloatLT(cv_squared, FloatMul(Rat(15, 100), Rat(15, 100)))
                     /\ FloatLT(score_variance, Float(150))
             THEN "macro"
             ELSE NULL

\* discovery.py:194-261: the loop over the active keywords
refine_scale_classifications ==
    /\ keywords' =
           [k \in DOMAIN keywords |->
               LET row == keywords[k]
                   current_scale == ScaleOrMacro(row.scale)
                   new_scale == RefinedScale(SvValues(trend_data, k),
                                             ScoreValues(trend_scores, k))
               IN  IF row # NoRow /\ row.status = "active" /\ new_scale # NULL
                      /\ new_scale # current_scale
                   THEN [row EXCEPT !.scale = new_scale]
                   ELSE row]
    /\ response' = "refined"
    /\ UNCHANGED <<trend_data, trend_scores, now, classify_pending, callVars, serviceVars,
                   workerVars>>

\* lists in ascending order of at most maxLen elements of the set S of numbers
SortedSeqsUpTo(S, maxLen) ==
    {q \in SeqsUpTo(S, maxLen) : \A i \in 1..(Len(q) - 1) : q[i] <= q[i + 1]}

\* composite scores of -60.00, 0.00 and 60.00
SampledScores == {-6000, 0, 6000}

\* one keyword with up to five search_volume points and a score for up to four
\* of the periods
RefineInit ==
    /\ now = 0
    /\ \E sv \in SortedSeqsUpTo(Readings, 5) :
           trend_data = [i \in 1..Len(sv) |->
                            [keyword |-> "k1", source |-> "google_trends",
                             metric |-> "search_volume", value |-> sv[i],
                             region |-> NULL, recorded_at |-> i]]
    /\ \E sc \in SortedSeqsUpTo(SampledScores, 4) :
           trend_scores = [i \in 1..Len(sc) |->
                              [keyword |-> "k1", period_days |-> PeriodList[i],
                               volume_growth |-> 0, price_growth |-> 0,
                               composite_score |-> sc[i], lifecycle_stage |-> "Emerging",
                               computed_at |-> 0]]
    /\ \E st \in {"active", "inactive"}, sc \in {NULL, "macro", "micro"} :
           keywords = [k \in Keywords |->
                          IF k = "k1"
                          THEN [source |-> "seed", status |-> st, scale |-> sc,
                                last_searched_at |-> -1]
                          ELSE NoRow]
    /\ RegistryQuiet

\* five search_volume points of k1 with one spike, and scores of three
\* periods of -60.00, 0.00 and 60.00: the statistics of a micro trend
SpikePoints ==
    [i \in 1..5 |-> [keyword |-> "k1", source |-> "google_trends",
                     metric |-> "search_volume", value |-> IF i = 5 THEN 5 ELSE 0,
                     region |-> NULL, recorded_at |-> i - 5]]
SwingScores ==
    [i \in 1..3 |-> [keyword |-> "k1", period_days |-> PeriodList[i], volume_growth |-> 0,
                     price_growth |-> 0, composite_score |-> 6000 * (i - 2),
                     lifecycle_stage |-> "Peak", computed_at |-> 0]]

\* a registry left by earlier runs of the program, with such data for k1
\* when k1 is in it
OriginInit ==
    /\ now = 0
    /\ keywords \in [Keywords -> RegistryShapes]
    /\ trend_data = IF keywords["k1"] # NoRow THEN SpikePoints ELSE <<>>
    /\ trend_scores = IF keywords["k1"] # NoRow THEN SwingScores ELSE <<>>
    /\ RegistryQuiet

\* jobs.py:106-108: the weekly job calls refine_scale_classifications
CallRefineScales ==
    /\ response = NULL
    /\ refine_scale_classifications

-----------------------------------------------------------------------------
(* The on-demand path: search_trend (trends/router.py:179-198) and          *)
(* add_to_comparison (compare/router.py:48-80)                              *)

\* router.py:20
STALE_THRESHOLD_HOURS == 6

\* compare/router.py:13
MAX_COMPARE == 6

\* router.py:188, compare/router.py:78: thread.join(timeout=30), in seconds
JoinTimeout == 30

\* the wait is followed in three steps
JoinStep == JoinTimeout \div 3

\* router.py:180: period: int = 7
SearchPeriod == PeriodList[1]

\* router.py:53-60: the sources whose absence makes the function return False
RequiredSources(config) ==
    {"google_trends"}
    \cup (IF config["ebay_app_id"] # "" /\ config["ebay_cert_id"] # "" THEN {"ebay"} ELSE {})
    \cup (IF config["etsy_api_key"] # "" THEN {"etsy"} ELSE {})

\* router.py:45-51: SELECT DISTINCT source of the rows recorded at or after
\* threshold
FreshSources(data, keyword, threshold) ==
    {data[i].source : i \in {j \in 1..Len(data) : /\ data[j].keyword = keyword
                                                   /\ data[j].recorded_at >= threshold}}

\* router.py:40-62
_has_fresh_data(keyword, data, config, t) ==
    RequiredSources(config) \subseteq FreshSources(data, keyword, t - STALE_THRESHOLD_HOURS)

\* router.py:182-183: the handler registers the keyword
search_trend(keyword) ==
    /\ req_pc = "idle"
    /\ EnsureTracked(keyword)
    /\ req_pc' = "check"
    /\ req_endpoint' = "search"
    /\ req_keyword' = keyword
    /\ UNCHANGED <<trend_data, trend_scores, now, response, req_fresh, req_waited, req_body,
                   ondemand, user_comparisons, callVars, workerVars, notRequestVars>>

\* compare/router.py:51-74: the comparison row is stored unless the list is
\* full, then the handler registers the keyword
add_to_comparison(keyword) ==
    /\ req_pc = "idle"
    /\ req_endpoint' = "compare"
    /\ req_keyword' = keyword
    /\ IF Cardinality(user_comparisons) >= MAX_COMPARE
       THEN /\ response' = "400"
            /\ req_pc' = "sent"
            /\ UNCHANGED <<keywords, classify_pending, user_comparisons>>
       ELSE /\ user_comparisons' = user_comparisons \cup {keyword}
            /\ EnsureTracked(keyword)
            /\ req_pc' = "check"
            /\ UNCHANGED response
    /\ UNCHANGED <<trend_data, trend_scores, now, req_fresh, req_waited, req_body, ondemand,
                   callVars, workerVars, notRequestVars>>

\* router.py:185-187, compare/router.py:75-77: the freshness test; a keyword
\* that is not fresh gets a thread running scrape_single_keyword
check_fresh_data ==
    /\ req_pc = "check"
    /\ LET fresh == _has_fresh_data(req_keyword, trend_data, settings, now)
       IN  /\ req_fresh' = fresh
           /\ req_pc' = IF fresh THEN "respond" ELSE "join"
           /\ ondemand' = IF fresh THEN ondemand
                          ELSE [pc |-> "scrape", keyword |-> req_keyword]
    /\ UNCHANGED <<dbVars, response, classify_pending, req_endpoint, req_keyword,
                   req_waited, req_body, user_comparisons, callVars, workerVars,
                   notRequestVars>>

ThreadAlive == ondemand.pc \in {"scrape", "score"}

\* router.py:188, compare/router.py:78: the handler is blocked in join while
\* the thread is alive and the timeout has not run out
join_waits ==
    /\ req_pc = "join"
    /\ ThreadAlive
    /\ req_waited < JoinTimeout
    /\ req_waited' = req_waited + JoinStep
    /\ UNCHANGED <<dbVars, response, classify_pending, req_pc, req_endpoint, req_keyword,
                   req_fresh, req_body, ondemand, user_comparisons, callVars, workerVars,
                   notRequestVars>>

\* a slip: join without timeout
JoinOver_no_timeout(alive, waited) == ~alive

\* threading.Thread.join(timeout): it returns when the thread has ended or the
\* timeout has run out
JoinOver(alive, waited) == ~alive \/ waited >= JoinTimeout

join_returns ==
    /\ req_pc = "join"
    /\ JoinOver(ThreadAlive, req_waited)
    /\ req_pc' = "respond"
    /\ UNCHANGED <<dbVars, response, classify_pending, req_endpoint, req_keyword,
                   req_fresh, req_waited, req_body, ondemand, user_comparisons, callVars,
                   workerVars, notRequestVars>>

\* router.py:190-198: the response of search_trend carries the details that
\* get_keyword_details reads from the rows committed now (service.py:217-240:
\* the stored points and the latest stored score row); the score that
\* compute_composite_score derives from the same rows is a function of them
\* and is not kept here; compare/router.py:80: add_to_comparison sends a message
send_response ==
    /\ req_pc = "respond"
    /\ req_pc' = "sent"
    /\ response' = "200"
    /\ IF req_endpoint = "search"
       THEN req_body' =
                [points |-> Cardinality({i \in 1..Len(trend_data) :
                                            trend_data[i].keyword = req_keyword}),
                 scored |-> ScoreRows(trend_scores, req_keyword, SearchPeriod) # {}]
       ELSE UNCHANGED req_body
    /\ UNCHANGED <<dbVars, classify_pending, req_endpoint, req_keyword, req_fresh,
                   req_waited, ondemand, user_comparisons, callVars, workerVars,
                   notRequestVars>>

\* jobs.py:129-134: the six scrapers of the thread; none of them raises
ondemand_scrape(google, stored) ==
    /\ ondemand.pc = "scrape"
    /\ stored \subseteq Configured(settings)
    /\ trend_data' = MarketRows(GoogleRows(trend_data, ondemand.keyword, google, now),
                                ondemand.keyword, Marketplaces, stored, now)
    /\ ondemand' = [ondemand EXCEPT !.pc = "score"]
    /\ UNCHANGED <<keywords, trend_scores, now, response, classify_pending, req_pc,
                   req_endpoint, req_keyword, req_fresh, req_waited, req_body,
                   user_comparisons, callVars, workerVars, notRequestVars>>

\* jobs.py:135-136: compute_and_store_scores commits, or raises and ends the
\* thread
ondemand_score(raised) ==
    /\ ondemand.pc = "score"
    /\ IF raised
       THEN /\ trend_scores' = ScoresAfterFailure(trend_scores, <<>>)
            /\ ondemand' = [ondemand EXCEPT !.pc = "died"]
       ELSE /\ \E prev_first \in [1..Len(PeriodList) ->
                                     PrevFirstChoices(trend_scores, ondemand.keyword)] :
                   trend_scores' = StoreScores(trend_scores, 1, ondemand.keyword,
                                               trend_data, keywords, trend_scores, now,
                                               prev_first)
            /\ ondemand' = [ondemand EXCEPT !.pc = "done"]
    /\ UNCHANGED <<trend_data, keywords, now, response, classify_pending, req_pc,
                   req_endpoint, req_keyword, req_fresh, req_waited, req_body,
                   user_comparisons, callVars, workerVars, notRequestVars>>

\* the sources that store rows for a keyword
AllSources == {"google_trends", "ebay", "reddit", "depop", "etsy", "poshmark"}

\* one row of a source for k1, recorded STALE_THRESHOLD_HOURS before JobClock
\* or an hour earlier
SourceRow(source, age) ==
    [keyword |-> "k1", source |-> source, metric |-> "sample", value |-> 1,
     region |-> NULL, recorded_at |-> JobClock - age]

\* rows of the sources of recent, in the order of Marketplaces, google first
RECURSIVE SourceRows(_, _, _)
SourceRows(sources, recent, old) ==
    IF sources = <<>> THEN <<>>
    ELSE (IF Head(sources) \in recent
          THEN <<SourceRow(Head(sources), STALE_THRESHOLD_HOURS)>>
          ELSE IF Head(sources) \in old
          THEN <<SourceRow(Head(sources), STALE_THRESHOLD_HOURS + 1)>>
          ELSE <<>>)
         \o SourceRows(Tail(sources), recent, old)

\* a request for k1 that has registered its keyword, with any settings and, of
\* each source, a recent row, an old row or none
FreshInit ==
    /\ now = JobClock
    /\ \E recent \in SUBSET AllSources, old \in SUBSET AllSources :
           /\ recent \cap old = {}
           /\ trend_data = SourceRows(<<"google_trends">> \o Marketplaces, recent, old)
    /\ trend_scores = <<>>
    /\ keywords = [k \in Keywords |->
                      IF k = "k1"
                      THEN [source |-> "user_search", status |-> "active", scale |-> NULL,
                            last_searched_at |-> JobClock]
                      ELSE NoRow]
    /\ classify_pending = {"k1"}
    /\ response = NULL
    /\ settings \in [SettingsFields -> {"", "set"}]
    /\ req_pc = "check"
    /\ req_endpoint = "search"
    /\ req_keyword = "k1"
    /\ req_fresh = FALSE
    /\ req_waited = 0
    /\ req_body = NoBody
    /\ ondemand = NoThread
    /\ user_comparisons = {}

\* the registry and the data a request can find: the keyword unknown, removed,
\* waiting for review or active, with recent rows of Google Trends or none
SearchInit ==
    /\ now = JobClock
    /\ \E r1 \in {row \in RegistryShapes :
                     \/ row = NoRow
                     \/ row.last_searched_at = 0 /\ row.source # "seed"
                     \/ row.source = "seed" /\ row.status = "active"
                                            /\ row.last_searched_at = -1} :
           keywords = [k \in Keywords |-> IF k = "k1" THEN r1 ELSE NoRow]
    /\ trend_data \in {<<>>, <<SourceRow("google_trends", STALE_THRESHOLD_HOURS)>>}
    /\ trend_scores = <<>>
    /\ RegistryQuiet
    /\ settings \in {NoCredentials, [f \in SettingsFields |-> "set"]}
    /\ req_pc = "idle"
    /\ req_endpoint = NULL
    /\ req_keyword = NULL
    /\ req_fresh = FALSE
    /\ req_waited = 0
    /\ req_body = NoBody
    /\ ondemand = NoThread
    /\ user_comparisons = {}

-----------------------------------------------------------------------------
(* forecasting/model.py: forecast_search_volume *)

MIN_POINTS == 7
FIT_WINDOW == 21
POLY_DEGREE == 1

\* CONFIDENCE_Z = 1.96
CONFIDENCE_Z == Rat(196, 100)

\* the digits kept of a square root: hundredths
SqrtScale == 100

\* the default the code uses when there are fewer than 2 residuals
DefaultStd == Float(5)

\* seq[-n:] for n > 0
LastN(seq, n) ==
    IF Len(seq) <= n THEN seq ELSE SubSeq(seq, Len(seq) - n + 1, Len(seq))

RECURSIVE FloatSum(_)
FloatSum(floats) ==
    IF floats = <<>> THEN Float(0) ELSE FloatAdd(Head(floats), FloatSum(Tail(floats)))

\* the largest k of lo..hi with k * k <= n, where lo * lo <= n
RECURSIVE IntSqrt(_, _, _)
IntSqrt(lo, hi, n) ==
    IF lo = hi THEN lo
    ELSE LET mid == (lo + hi + 1) \div 2
         IN  IF mid * mid <= n THEN IntSqrt(mid, hi, n) ELSE IntSqrt(lo, mid - 1, n)

\* the square root of a float that is not negative, rounded down to a multiple
\* of 1 / SqrtScale (numpy rounds to the nearest float)
FloatSqrt(x) ==
    LET scaled == SqrtScale * SqrtScale * (x.n \div x.d)
                      + (SqrtScale * SqrtScale * (x.n % x.d)) \div x.d
    IN  Rat(IntSqrt(0, 46340, scaled), SqrtScale)

\* np.polyfit(x, y, deg) for x = 0, 1, .., len(y) - 1: the least-squares
\* polynomial, highest power first; degree 0 is the mean
polyfit(y, degree) ==
    LET n == Len(y)
        x == [i \in 1..n |-> i - 1]
        Sx == sum(x)
        Sy == sum(y)
        Sxx == sum([i \in 1..n |-> x[i] * x[i]])
        Sxy == sum([i \in 1..n |-> x[i] * y[i]])
        slope == Rat(n * Sxy - Sx * Sy, n * Sxx - Sx * Sx)
    IN  IF degree = 0 THEN <<Float(0), Rat(Sy, n)>>
        ELSE <<slope, FloatDiv(FloatSub(Float(Sy), FloatMul(slope, Float(Sx))), Float(n))>>

\* np.polyval(coeffs, xi) for the two coefficients of polyfit
polyval(coeffs, xi) == FloatAdd(FloatMul(coeffs[1], Float(xi)), coeffs[2])

\* np.std(residuals): the square root of the mean squared deviation from the mean
std_of(residuals) ==
    LET n == Float(Len(residuals))
        mean == FloatDiv(FloatSum(residuals), n)
        Dev2(r) == FloatMul(FloatSub(r, mean), FloatSub(r, mean))
    IN  FloatSqrt(FloatDiv(FloatSum([i \in 1..Len(residuals) |-> Dev2(residuals[i])]), n))

\* a slip: the lower end of the range is not enforced
clip_upper_only(v, lo, hi) == IF FloatGT(v, hi) THEN hi ELSE v

\* np.clip(v, lo, hi)
clip(v, lo, hi) == IF FloatLT(v, lo) THEN lo ELSE IF FloatGT(v, hi) THEN hi ELSE v

\* model.py:41-91 for the daily values the query returned, oldest first
forecast_search_volume(historical, horizon_days) ==
    IF Len(historical) < MIN_POINTS
    THEN [insufficient_data |-> TRUE, forecast |-> <<>>, fit_window_days |-> 0,
          model |-> "none"]
    ELSE LET y == LastN(historical, FIT_WINDOW)
             degree == IF POLY_DEGREE < Len(y) - 1 THEN POLY_DEGREE ELSE Len(y) - 1
             coeffs == polyfit(y, degree)
             residuals == [i \in 1..Len(y) |->
                              FloatSub(Float(y[i]), polyval(coeffs, i - 1))]
             std == IF Len(residuals) > 1 THEN std_of(residuals) ELSE DefaultStd
             band == FloatMul(CONFIDENCE_Z, std)
             x_offset == Len(y)
             Entry(i) ==
                 LET val == clip(polyval(coeffs, x_offset + i), Float(0), Float(100))
                 IN  [day |-> i + 1,
                      value |-> val,
                      lower |-> clip(FloatSub(val, band), Float(0), Float(100)),
                      upper |-> clip(FloatAdd(val, band), Float(0), Float(100))]
         IN  [insufficient_data |-> FALSE,
              forecast |-> [j \in 1..horizon_days |-> Entry(j - 1)],
              fit_window_days |-> Len(y),
              model |-> IF degree = 1 THEN "polynomial_deg1" ELSE "polynomial_deg0"]

\* the index values sampled, and the histories: every list of up to
\* MaxHistory daily values, and lists longer than the fit window whose last
\* FIT_WINDOW values rise by 4 a day after a first value of 100
MaxHistory == 7
MaxHorizon == 2
IndexSamples == {0, 50, 100}
Ramp == [i \in 1..FIT_WINDOW |-> 4 * (i - 1)]
LongHistories == {<<100>> \o Ramp, <<100, 100>> \o Ramp, <<0>> \o Ramp}

\* trends/router.py:411-415: horizon is any integer of the query string
ForecastInit ==
    /\ trend_data = <<>>
    /\ trend_scores = <<>>
    /\ keywords = [k \in Keywords |-> NoRow]
    /\ now = 0
    /\ fc_pc = "call"
    /\ fc_historical \in SeqsUpTo(IndexSamples, MaxHistory) \cup LongHistories
    /\ fc_horizon \in -1..MaxHorizon
    /\ fc_result = NoForecast

trend_forecast ==
    /\ fc_pc = "call"
    /\ fc_result' = forecast_search_volume(fc_historical, fc_horizon)
    /\ fc_pc' = "returned"
    /\ UNCHANGED <<fc_historical, fc_horizon, growthVars, lifecycleVars, dbVars,
                   compositeVars, topVars, registryVars, workerVars, notEndpointVars,
                   notForecastVars>>

-----------------------------------------------------------------------------
(* scrapers/google_trends.py: the retry loop of scrape_google_trends *)

\* google_trends.py:12: retries: int = 3; every caller uses the default
DefaultRetries == 3
MaxRetries == DefaultRetries

RECURSIVE Pow2(_)
Pow2(k) == IF k = 0 THEN 1 ELSE 2 * Pow2(k - 1)

\* a slip: the same wait after every attempt
BackoffWait_constant(attempt) == 60

\* google_trends.py:18: wait = 60 * (2 ** attempt)
BackoffWait(attempt) == 60 * Pow2(attempt)

RetryInit ==
    /\ trend_data \in {<<>>,
                       <<[keyword |-> "k2", source |-> "google_trends",
                          metric |-> "search_volume", value |-> MaxReading,
                          region |-> NULL, recorded_at |-> 1]>>}
    /\ keywords = [k \in Keywords |-> NoRow]
    /\ trend_scores = <<>>
    /\ now = 0
    /\ gt_pc = "loop"
    /\ gt_retries \in 0..MaxRetries
    /\ gt_attempt = 0
    /\ gt_outcomes = <<>>
    /\ gt_slept = <<>>
    /\ gt_result = NULL

\* google_trends.py:14-17: one pass of the loop up to the test of result;
\* _scrape_google_trends_once stores and commits the frame and returns True, or
\* catches its exception and returns False (lines 27-104)
scrape_attempt(result, df) ==
    /\ gt_pc = "loop"
    /\ gt_attempt < gt_retries
    /\ gt_outcomes' = Append(gt_outcomes, result)
    /\ IF result
       THEN /\ trend_data' = UpsertFrame(trend_data, ScrapedKeyword, df, 1)
            /\ gt_result' = "True"
            /\ gt_pc' = "returned"
       ELSE /\ gt_pc' = "sleep"
            /\ UNCHANGED <<trend_data, gt_result>>
    /\ UNCHANGED <<keywords, trend_scores, now, gt_retries, gt_attempt, gt_slept,
                   growthVars, lifecycleVars, compositeVars, topVars, registryVars,
                   workerVars, notEndpointVars, notRetryVars>>

\* google_trends.py:18-20: the wait after a failed attempt, then the next pass
retry_sleep ==
    /\ gt_pc = "sleep"
    /\ gt_slept' = Append(gt_slept, BackoffWait(gt_attempt))
    /\ gt_attempt' = gt_attempt + 1
    /\ gt_pc' = "loop"
    /\ UNCHANGED <<dbVars, gt_retries, gt_outcomes, gt_result, growthVars, lifecycleVars,
                   compositeVars, topVars, registryVars, workerVars, notEndpointVars,
                   notRetryVars>>

\* google_trends.py:21-22: the loop is over without a success
retries_exhausted ==
    /\ gt_pc = "loop"
    /\ gt_attempt >= gt_retries
    /\ gt_result' = "False"
    /\ gt_pc' = "returned"
    /\ UNCHANGED <<dbVars, gt_retries, gt_attempt, gt_outcomes, gt_slept, growthVars,
                   lifecycleVars, compositeVars, topVars, registryVars, workerVars,
                   notEndpointVars, notRetryVars>>

-----------------------------------------------------------------------------
(* Requests served at the same time.  The handlers are plain functions     *)
(* (def, not async def): the server runs each request on a thread of its    *)
(* pool, with a connection of its own (database.py get_connection), so the  *)
(* statements of two requests interleave between commits.                   *)

\* the variables of the single request followed above
singleRequestVars == <<req_pc, req_endpoint, req_keyword, req_fresh, req_waited, req_body,
                       ondemand>>

\* what the requests of the pool leave alone
poolFrame == <<callVars, workerVars, jobVars, configVars, discoveryVars, singleRequestVars,
               notHandlerVars>>

\* a handler thread after a step
Moved(h, pc, fields) == [handlers EXCEPT ![h] = [f \in DOMAIN @ |->
                            IF f = "pc" THEN pc
                            ELSE IF f \in DOMAIN fields THEN fields[f] ELSE @[f]]]

\* trends/router.py:181-183: search_trend registers the keyword
pool_search_trend(h, keyword) ==
    /\ handlers[h].pc = "idle"
    /\ EnsureTracked(keyword)
    /\ handlers' = Moved(h, "check", [endpoint |-> "search", keyword |-> keyword])
    /\ UNCHANGED <<trend_data, trend_scores, now, response, user_comparisons,
                   scrape_threads, poolFrame>>

\* compare/router.py:51-64: SELECT COUNT(*) of the rows of the user; at the
\* limit the handler raises HTTPException(400)
pool_add_count(h, keyword) ==
    /\ handlers[h].pc = "idle"
    /\ LET count == Cardinality(user_comparisons)
       IN  handlers' = IF count >= MAX_COMPARE
                       THEN Moved(h, "sent", [endpoint |-> "compare", keyword |-> keyword,
                                              count |-> count, status |-> "400"])
                       ELSE Moved(h, "insert", [endpoint |-> "compare", keyword |-> keyword,
                                                count |-> count])
    /\ UNCHANGED <<dbVars, registryVars, user_comparisons, scrape_threads, poolFrame>>

\* compare/router.py:66-71: INSERT OR IGNORE under UNIQUE(user_email, keyword)
\* (database.py:72), and the commit
pool_add_insert(h) ==
    /\ handlers[h].pc = "insert"
    /\ user_comparisons' = user_comparisons \cup {handlers[h].keyword}
    /\ handlers' = Moved(h, "track", <<>>)
    /\ UNCHANGED <<dbVars, registryVars, scrape_threads, poolFrame>>

\* compare/router.py:74
pool_add_track(h) ==
    /\ handlers[h].pc = "track"
    /\ EnsureTracked(handlers[h].keyword)
    /\ handlers' = Moved(h, "check", <<>>)
    /\ UNCHANGED <<trend_data, trend_scores, now, response, user_comparisons,
                   scrape_threads, poolFrame>>

\* trends/router.py:185-187, compare/router.py:75-77: a keyword that is not
\* fresh gets a new thread running scrape_single_keyword
pool_check_fresh(h) ==
    /\ handlers[h].pc = "check"
    /\ IF _has_fresh_data(handlers[h].keyword, trend_data, settings, now)
       THEN /\ handlers' = Moved(h, "respond", <<>>)
            /\ UNCHANGED scrape_threads
       ELSE /\ scrape_threads' = Append(scrape_threads,
                                        [pc |-> "scrape", keyword |-> handlers[h].keyword])
            /\ handlers' = Moved(h, "join", [thread |-> Len(scrape_threads) + 1])
    /\ UNCHANGED <<dbVars, registryVars, user_comparisons, poolFrame>>

\* the thread a handler waits for is alive
PoolThreadAlive(h) == scrape_threads[handlers[h].thread].pc \in {"scrape", "score"}

\* trends/router.py:188, compare/router.py:78: blocked in thread.join until
\* the timeout has run out
pool_join_waits(h) ==
    /\ handlers[h].pc = "join"
    /\ PoolThreadAlive(h)
    /\ handlers[h].waited < JoinTimeout
    /\ handlers' = Moved(h, "join", [waited |-> JoinTimeout])
    /\ UNCHANGED <<dbVars, registryVars, user_comparisons, scrape_threads, poolFrame>>

pool_join_returns(h) ==
    /\ handlers[h].pc = "join"
    /\ JoinOver(PoolThreadAlive(h), handlers[h].waited)
    /\ handlers' = Moved(h, "respond", <<>>)
    /\ UNCHANGED <<dbVars, registryVars, user_comparisons, scrape_threads, poolFrame>>

\* trends/router.py:190-198, compare/router.py:80
pool_send_response(h) ==
    /\ handlers[h].pc = "respond"
    /\ handlers' = Moved(h, "sent", [status |-> "200"])
    /\ UNCHANGED <<dbVars, registryVars, user_comparisons, scrape_threads, poolFrame>>

\* compare/router.py:83-94: one DELETE and its commit
remove_from_comparison(keyword) ==
    /\ user_comparisons' = user_comparisons \ {keyword}
    /\ UNCHANGED <<dbVars, registryVars, handlerVars, poolFrame>>

\* compare/router.py:97-104: one DELETE and its commit
clear_comparison ==
    /\ user_comparisons' = {}
    /\ UNCHANGED <<dbVars, registryVars, handlerVars, poolFrame>>

\* jobs.py:129-134: the six scrapers of a thread; none of them raises
pool_thread_scrape(i, google, stored) ==
    /\ i \in 1..Len(scrape_threads)
    /\ scrape_threads[i].pc = "scrape"
    /\ stored \subseteq Configured(settings)
    /\ trend_data' = MarketRows(GoogleRows(trend_data, scrape_threads[i].keyword, google, now),
                                scrape_threads[i].keyword, Marketplaces, stored, now)
    /\ scrape_threads' = [scrape_threads EXCEPT ![i].pc = "score"]
    /\ UNCHANGED <<keywords, trend_scores, now, registryVars, user_comparisons, handlers,
                   poolFrame>>

\* jobs.py:135-136: compute_and_store_scores commits, or raises and ends the
\* thread
pool_thread_score(i, raised) ==
    /\ i \in 1..Len(scrape_threads)
    /\ scrape_threads[i].pc = "score"
    /\ IF raised
       THEN /\ trend_scores' = ScoresAfterFailure(trend_scores, <<>>)
            /\ scrape_threads' = [scrape_threads EXCEPT ![i].pc = "died"]
       ELSE /\ \E prev_first \in [1..Len(PeriodList) ->
                                     PrevFirstChoices(trend_scores, scrape_threads[i].keyword)] :
                   trend_scores' = StoreScores(trend_scores, 1, scrape_threads[i].keyword,
                                               trend_data, keywords, trend_scores, now,
                                               prev_first)
            /\ scrape_threads' = [scrape_threads EXCEPT ![i].pc = "done"]
    /\ UNCHANGED <<trend_data, keywords, now, registryVars, user_comparisons, handlers,
                   poolFrame>>

\* keywords the user compared before; their registry rows play no part in
\* the requests followed here and are left out of table keywords
ComparedBefore == {"c1", "c2", "c3", "c4", "c5"}

\* two handler threads ready for a request each; the comparison list of the
\* user is empty or one under its limit; k1 and k2 are new to the registry,
\* and k1 has a recent row of Google Trends or none
PoolInit ==
    /\ now = JobClock
    /\ keywords = [k \in Keywords |-> NoRow]
    /\ trend_data \in {<<>>, <<SourceRow("google_trends", STALE_THRESHOLD_HOURS)>>}
    /\ trend_scores = <<>>
    /\ RegistryQuiet
    /\ settings = NoCredentials
    /\ req_pc = "off"
    /\ req_endpoint = NULL
    /\ req_keyword = NULL
    /\ req_fresh = FALSE
    /\ req_waited = 0
    /\ req_body = NoBody
    /\ ondemand = NoThread
    /\ user_comparisons \in {{}, ComparedBefore}
    /\ handlers = [h \in Handlers |-> IdleHandler]
    /\ scrape_threads = <<>>

\* the keyword of the request of a handler thread: the requests are for one
\* keyword or for two
RequestedBy(h) == IF h = "h1" THEN {"k1"} ELSE Keywords

\* what the Google Trends scrape of a thread does: it fails, or stores the
\* points of a frame
PoolOutcomes == {GoogleFailed, GoogleFrame([d \in JobDays |-> MaxReading], TRUE)}

-----------------------------------------------------------------------------
(* Specifications *)

SpecGrowthInit ==
    GrowthInit /\ LifecycleQuiet /\ DbEmpty /\ CompositeQuiet /\ TopQuiet /\ RegistryQuiet
    /\ WorkersQuiet /\ ServiceQuiet
SpecGrowthNext == CallGetGrowthRate
SpecGrowth == SpecGrowthInit /\ [][SpecGrowthNext]_vars

SpecLifecycleInit ==
    LifecycleInit /\ GrowthQuiet /\ DbEmpty /\ CompositeQuiet /\ TopQuiet /\ RegistryQuiet
    /\ WorkersQuiet /\ ServiceQuiet
SpecLifecycleNext == CallDetectLifecycle
SpecLifecycle == SpecLifecycleInit /\ [][SpecLifecycleNext]_vars

SpecCompositeInit ==
    CompositeInit /\ GrowthQuiet /\ LifecycleQuiet /\ TopQuiet /\ RegistryQuiet
    /\ WorkersQuiet /\ ServiceQuiet
SpecCompositeNext == CallComputeCompositeScore
SpecComposite == SpecCompositeInit /\ [][SpecCompositeNext]_vars

SpecTopInit ==
    TopInit /\ GrowthQuiet /\ LifecycleQuiet /\ CompositeQuiet /\ RegistryQuiet
    /\ WorkersQuiet /\ ServiceQuiet
SpecTopNext == CallGetTopTrends
SpecTop == SpecTopInit /\ [][SpecTopNext]_vars

\* the registry operations that have a caller in the program
SpecRegistryInit ==
    RegistryInit /\ GrowthQuiet /\ LifecycleQuiet /\ CompositeQuiet /\ TopQuiet
    /\ WorkersQuiet /\ ServiceQuiet
SpecRegistryNext ==
    \/ Tick
    \/ load_seed_keywords
    \/ \E k \in Keywords : _ensure_keyword_tracked(k)
    \/ \E k \in Keywords, reply \in ScaleReplies : _classify(k, reply)
    \/ \E k \in Keywords : activate_keyword(k)
    \/ \E k \in Keywords : remove_keyword(k)
    \/ expire_stale_keywords
    \/ \E c \in CandidateLists, r \in [Keywords -> SimilarReplies] : run_discovery(c, r)
SpecRegistry == SpecRegistryInit /\ [][SpecRegistryNext]_vars

\* the same with the merge helper of router.py:65-82 called by some caller
SpecRegistryMergeNext ==
    \/ SpecRegistryNext
    \/ \E s \in Keywords, t \in Keywords : _merge_keyword_data(s, t)
SpecRegistryMerge == SpecRegistryInit /\ [][SpecRegistryMergeNext]_vars

\* scrapes of Google Trends one after the other
SpecUpsertInit ==
    UpsertInit /\ GrowthQuiet /\ LifecycleQuiet /\ CompositeQuiet /\ TopQuiet
    /\ RegistryQuiet /\ ServiceQuiet
SpecUpsertNext == \E df \in Frames : scrape_google_trends(ScrapedKeyword, df)
SpecUpsert == SpecUpsertInit /\ [][SpecUpsertNext]_vars

\* scrapes of Google Trends for one keyword on two threads, each frame covering
\* all dates
SpecScrapeInit ==
    ScrapeInit /\ GrowthQuiet /\ LifecycleQuiet /\ CompositeQuiet /\ TopQuiet
    /\ RegistryQuiet /\ ServiceQuiet
SpecScrapeNext ==
    \/ \E t \in Threads, df \in [Dates -> Readings] : scrape_begin(t, ScrapedKeyword, df)
    \/ \E t \in Threads : upsert_select(t)
    \/ \E t \in Threads : upsert_write(t)
    \/ \E t \in Threads : upsert_commit(t)
    \/ \E t \in Threads : scrape_fails(t)
SpecScrape == SpecScrapeInit /\ [][SpecScrapeNext]_vars

\* compute_and_store_scores on two threads, with a reader
SpecScoresInit ==
    ScoresInit /\ GrowthQuiet /\ LifecycleQuiet /\ CompositeQuiet /\ TopQuiet
    /\ RegistryQuiet /\ ServiceQuiet
SpecScoresNext ==
    \/ Tick
    \/ \E t \in Threads, k \in Keywords : scores_begin(t, k)
    \/ \E t \in Threads : scores_compute(t)
    \/ \E t \in Threads : scores_delete(t)
    \/ \E t \in Threads : scores_insert(t)
    \/ \E t \in Threads : scores_commit(t)
    \/ \E t \in Threads : scores_fail(t)
    \/ \E k \in Keywords, p \in Periods : read_score(k, p)
SpecScores == SpecScoresInit /\ [][SpecScoresNext]_vars

\* runs of compute_and_store_scores for one keyword on one thread, one after
\* the other, over stored search volumes
SpecAccelInit ==
    AccelInit /\ GrowthQuiet /\ LifecycleQuiet /\ CompositeQuiet /\ TopQuiet
    /\ RegistryQuiet /\ ServiceQuiet
SpecAccelNext ==
    \/ scores_begin("t1", ScoredKeyword)
    \/ scores_compute("t1")
    \/ scores_delete("t1")
    \/ scores_insert("t1")
    \/ scores_commit("t1")
    \/ scores_fail("t1")
SpecAccel == SpecAccelInit /\ [][SpecAccelNext]_vars

\* searches, removals and expiry runs on a registry left by earlier runs
SpecExpireInit ==
    StoredRegistryInit /\ GrowthQuiet /\ LifecycleQuiet /\ CompositeQuiet /\ TopQuiet
    /\ WorkersQuiet /\ ServiceQuiet
SpecExpireNext ==
    \/ Tick
    \/ \E k \in Keywords : _ensure_keyword_tracked(k)
    \/ \E k \in Keywords, reply \in ScaleReplies : _classify(k, reply)
    \/ \E k \in Keywords : remove_keyword(k)
    \/ expire_stale_keywords
SpecExpire == SpecExpireInit /\ [][SpecExpireNext]_vars

\* every registry operation of the program on a registry left by earlier runs,
\* which may hold keywords that a discovery run stored for review
SpecReviewInit ==
    StoredRegistryInit /\ GrowthQuiet /\ LifecycleQuiet /\ CompositeQuiet /\ TopQuiet
    /\ WorkersQuiet /\ ServiceQuiet
SpecReviewNext ==
    \/ Tick
    \/ \E k \in Keywords : _ensure_keyword_tracked(k)
    \/ \E k \in Keywords, reply \in ScaleReplies : _classify(k, reply)
    \/ \E k \in Keywords : activate_keyword(k)
    \/ \E k \in Keywords : remove_keyword(k)
    \/ expire_stale_keywords
    \/ \E c \in CandidateLists, reply \in SimilarReplies :
           run_discovery(c, [k \in Keywords |-> reply])
SpecReview == SpecReviewInit /\ [][SpecReviewNext]_vars

\* every operation of the program that writes table keywords, on a registry
\* left by earlier runs
SpecOriginInit ==
    OriginInit /\ GrowthQuiet /\ LifecycleQuiet /\ CompositeQuiet /\ TopQuiet
    /\ WorkersQuiet /\ ServiceQuiet
SpecOriginNext ==
    \/ Tick
    \/ load_seed_keywords
    \/ \E k \in Keywords : _ensure_keyword_tracked(k)
    \/ \E k \in Keywords, reply \in ScaleReplies : _classify(k, reply)
    \/ \E k \in Keywords : activate_keyword(k)
    \/ \E k \in Keywords : remove_keyword(k)
    \/ expire_stale_keywords
    \/ \E c \in CandidateLists, reply \in SimilarReplies :
           run_discovery(c, [k \in Keywords |-> reply])
    \/ refine_scale_classifications
SpecOrigin == SpecOriginInit /\ [][SpecOriginNext]_vars

\* one run of the discovery job
SpecDiscoveryInit ==
    DiscoveryInit /\ GrowthQuiet /\ LifecycleQuiet /\ CompositeQuiet /\ TopQuiet
    /\ WorkersQuiet /\ JobsQuiet /\ settings = NoCredentials /\ RequestQuiet
    /\ EndpointsQuiet
SpecDiscoveryNext == CallRunDiscovery
SpecDiscovery == SpecDiscoveryInit /\ [][SpecDiscoveryNext]_vars

\* one run of the scale refinement job
SpecRefineInit ==
    RefineInit /\ GrowthQuiet /\ LifecycleQuiet /\ CompositeQuiet /\ TopQuiet
    /\ WorkersQuiet /\ ServiceQuiet
SpecRefineNext == CallRefineScales
SpecRefine == SpecRefineInit /\ [][SpecRefineNext]_vars

\* the freshness test of a request
SpecFreshInit ==
    FreshInit /\ GrowthQuiet /\ LifecycleQuiet /\ CompositeQuiet /\ TopQuiet
    /\ WorkersQuiet /\ JobsQuiet /\ DiscoveryQuiet /\ EndpointsQuiet
SpecFreshNext == check_fresh_data
SpecFresh == SpecFreshInit /\ [][SpecFreshNext]_vars

\* one request on the on-demand path, with the thread it starts
SpecSearchInit ==
    SearchInit /\ GrowthQuiet /\ LifecycleQuiet /\ CompositeQuiet /\ TopQuiet
    /\ WorkersQuiet /\ JobsQuiet /\ DiscoveryQuiet /\ EndpointsQuiet
RequestNext ==
    \/ \E k \in Keywords : search_trend(k)
    \/ \E k \in Keywords : add_to_comparison(k)
    \/ check_fresh_data
    \/ join_waits
    \/ join_returns
    \/ send_response
ThreadNext ==
    \/ \E google \in GoogleOutcomes, stored \in MarketOutcomes :
           ondemand_scrape(google, stored)
    \/ \E raised \in BOOLEAN : ondemand_score(raised)
SpecSearchNext == RequestNext \/ ThreadNext
SpecSearch == SpecSearchInit /\ [][SpecSearchNext]_vars

\* the same with a handler that always takes its next step: the server runs
\* it on a thread of its own, and time passes while it is blocked in join;
\* nothing is assumed of the scrape thread, which waits on the network
SpecSearchLive == SpecSearch /\ WF_vars(RequestNext)

\* one run of the scheduled job scrape_and_score
SpecJobInit ==
    JobInit /\ GrowthQuiet /\ LifecycleQuiet /\ CompositeQuiet /\ TopQuiet
    /\ RegistryQuiet /\ WorkersQuiet /\ DiscoveryQuiet /\ RequestQuiet /\ EndpointsQuiet
SpecJobNext ==
    \/ scrape_and_score
    \/ \E google \in GoogleOutcomes, stored \in MarketOutcomes :
           scrape_all_sources(google, stored)
    \/ compute_all_scores_begin
    \/ \E raised \in BOOLEAN : compute_all_scores(raised)
    \/ catchup_google_trends_begin
    \/ \E google \in GoogleOutcomes, raised \in BOOLEAN :
           catchup_google_trends(google, raised)
    \/ catchup_google_trends_end
SpecJob == SpecJobInit /\ [][SpecJobNext]_vars

\* two requests of one user served at the same time, with the threads they
\* start, and the removals of the user
SpecPoolInit ==
    PoolInit /\ GrowthQuiet /\ LifecycleQuiet /\ CompositeQuiet /\ TopQuiet
    /\ WorkersQuiet /\ JobsQuiet /\ DiscoveryQuiet /\ ForecastQuiet /\ RetryQuiet
SpecPoolNext ==
    \/ \E h \in Handlers : \E k \in RequestedBy(h) : pool_search_trend(h, k)
    \/ \E h \in Handlers : \E k \in RequestedBy(h) : pool_add_count(h, k)
    \/ \E h \in Handlers : pool_add_insert(h)
    \/ \E h \in Handlers : pool_add_track(h)
    \/ \E h \in Handlers : pool_check_fresh(h)
    \/ \E h \in Handlers : pool_join_waits(h)
    \/ \E h \in Handlers : pool_join_returns(h)
    \/ \E h \in Handlers : pool_send_response(h)
    \/ \E k \in {"k1", "c1"} : remove_from_comparison(k)
    \/ clear_comparison
    \/ \E i \in 1..Len(scrape_threads), google \in PoolOutcomes :
           pool_thread_scrape(i, google, {})
    \/ \E i \in 1..Len(scrape_threads), raised \in BOOLEAN : pool_thread_score(i, raised)
SpecPool == SpecPoolInit /\ [][SpecPoolNext]_vars

\* one call of the forecast endpoint
SpecForecastInit ==
    ForecastInit /\ GrowthQuiet /\ LifecycleQuiet /\ CompositeQuiet /\ TopQuiet
    /\ RegistryQuiet /\ WorkersQuiet /\ JobsQuiet /\ settings = NoCredentials
    /\ DiscoveryQuiet /\ RequestQuiet /\ RetryQuiet /\ HandlersQuiet
SpecForecastNext == trend_forecast
SpecForecast == SpecForecastInit /\ [][SpecForecastNext]_vars

\* one call of scrape_google_trends
SpecRetryInit ==
    RetryInit /\ GrowthQuiet /\ LifecycleQuiet /\ CompositeQuiet /\ TopQuiet
    /\ RegistryQuiet /\ WorkersQuiet /\ JobsQuiet /\ settings = NoCredentials
    /\ DiscoveryQuiet /\ RequestQuiet /\ ForecastQuiet /\ HandlersQuiet
SpecRetryNext ==
    \/ \E result \in BOOLEAN, df \in Frames : scrape_attempt(result, df)
    \/ retry_sleep
    \/ retries_exhausted
SpecRetry == SpecRetryInit /\ [][SpecRetryNext]_vars

\* the same for a call that keeps running: the function runs on one thread
\* from its first statement to its return, every request of the scraping
\* library carries a timeout, and time.sleep returns
SpecRetryLive == SpecRetry /\ WF_vars(SpecRetryNext)

-----------------------------------------------------------------------------
(* Properties of the keyword registry *)

\* C1: a keyword whose source is 'seed' never has status 'inactive', whatever
\* operation ran (remove_keyword, expire_stale_keywords, search or
\* comparison-add, activate, discovery, the keyword-merge helper)
C1_SeedNeverInactive ==
    \A k \in DOMAIN keywords :
        keywords[k].source = "seed" => keywords[k].status # "inactive"

-----------------------------------------------------------------------------
(* Properties of the Google Trends upsert *)

\* rowids of the search_volume points of keyword for date
Points(data, keyword, date) ==
    {i \in 1..Len(data) :
        /\ data[i].keyword = keyword
        /\ data[i].source = "google_trends"
        /\ data[i].metric = "search_volume"
        /\ data[i].recorded_at = date
        /\ data[i].region = NULL}

MaxOf(S) == CHOOSE x \in S : \A y \in S : y <= x

\* C2: after any sequence of scrapes delivering non-negative readings, the value
\* stored for (keyword, date) is the maximum of all readings seen so far for it,
\* and no step replaces a stored non-zero value by zero or by a smaller value
C2_StoredIsMaxOfReadings ==
    /\ [](\A d \in Dates :
             seen[d] # {} =>
                 /\ Points(trend_data, ScrapedKeyword, d) # {}
                 /\ \A i \in Points(trend_data, ScrapedKeyword, d) :
                        trend_data[i].value = MaxOf(seen[d]))
    /\ [][\A i \in 1..Len(trend_data) :
             trend_data[i].value # 0 =>
                 /\ i <= Len(trend_data')
                 /\ trend_data'[i].value >= trend_data[i].value]_vars

\* a date for which a zero and the largest reading were both delivered, the
\* largest one stored
C2_Witness ==
    \E d \in Dates :
        /\ {0, 1, MaxReading} \subseteq seen[d]
        /\ \E i \in Points(trend_data, ScrapedKeyword, d) :
               trend_data[i].value = MaxReading

\* C3: after any scrape_google_trends runs for a keyword, interleaved ones
\* included, there is at most one search_volume record per (keyword, date) with
\* region unset
C3_NoDuplicatePoints ==
    \A k \in Keywords, d \in Dates : Cardinality(Points(trend_data, k, d)) <= 1

-----------------------------------------------------------------------------
(* Properties of compute_and_store_scores *)

\* C4: the score store holds at most one record per (keyword, period_days), and
\* exactly one for each of the periods 7, 14, 30, 60, 90 of a keyword that has
\* been scored successfully at least once
C4_OneScorePerKeywordPeriod ==
    \A k \in Keywords, p \in Periods :
        /\ Cardinality(ScoreRows(trend_scores, k, p)) <= 1
        /\ k \in scored => Cardinality(ScoreRows(trend_scores, k, p)) = 1

\* a thread about to commit new scores of a keyword that was scored before, the
\* other thread waiting with scores of the same keyword
C4_Witness ==
    \E t \in Threads, u \in Threads :
        /\ threads[t].pc = "commit"
        /\ threads[t].keyword \in scored
        /\ threads[u].pc = "delete"
        /\ threads[u].keyword = threads[t].keyword
        /\ threads[u].computed_at # threads[t].computed_at

\* C5: when a run of compute_and_store_scores fails, none of the stored score
\* records is deleted or changed, and a reader never finds the record of a scored
\* (keyword, period) missing, also not between the DELETE and the INSERT
C5_AtomicReplacement ==
    /\ [][(\E t \in Threads : /\ threads[t].pc \in {"compute", "delete", "insert"}
                              /\ threads'[t].pc = "idle")
          => trend_scores' = trend_scores]_vars
    /\ [](score_read.expected => score_read.found)

\* a reader found the record while the writer had deleted and not yet inserted
\* it, and a run has failed after writing
C5_Witness ==
    /\ score_read.expected
    /\ score_read.found
    /\ score_read.in_gap
    /\ \E t \in Threads : threads[t].pc = "idle" /\ threads[t].outcome = "rolled_back"

-----------------------------------------------------------------------------
(* Properties of _get_growth_rate *)

AllPositive(values) == \A i \in 1..Len(values) : values[i] > 0

C9_GrowthRateDefined ==
    growth_pc = "returned" =>
        LET s1 == sum(values_first_half)
            n1 == Len(values_first_half)
            s2 == sum(values_second_half)
            n2 == Len(values_second_half)
        IN  /\ growth_rate.d # 0
            /\ (n1 = 0 \/ n2 = 0) => (growth_rate.n = 0)
            /\ (n1 > 0 /\ n2 > 0 /\ s1 = 0 /\ s2 > 0) =>
                   (growth_rate.n = 100 * growth_rate.d)
            /\ (n1 > 0 /\ n2 > 0 /\ s1 = 0 /\ s2 <= 0) => (growth_rate.n = 0)
            /\ (n1 > 0 /\ n2 > 0 /\ s1 # 0) =>
                   (growth_rate.n * s1 * n2 = 100 * growth_rate.d * (s2 * n1 - s1 * n2))

C9_Witness ==
    /\ growth_pc = "returned"
    /\ values_first_half = <<0, 0>>
    /\ values_second_half = <<0, 3>>
    /\ growth_rate = Float(100)

-----------------------------------------------------------------------------
(* Properties of the lifecycle decision *)

\* C6: the stage is the first match of the documented table: Dormant if volume <
\* dormant threshold; else Emerging if growth > 30 and volume < emerging ceiling;
\* else Accelerating if growth > 20 and acceleration > 0; else, if -5 <= growth
\* <= 10 and volume > peak floor, Peak when acceleration <= 0 and Accelerating
\* otherwise; else Saturation if -20 <= growth < -5; else Decline if growth <
\* -20; else Emerging if growth > 10, otherwise Peak; thresholds (2, 15, 5) for
\* micro and (5, 100, 50) for macro or unset scale.
C6_LifecycleDecisionTable ==
    lifecycle_pc = "returned" =>
        LET v == total_volume
            g == volume_growth.n
            a == acceleration.n
            th == IF scale = "micro" THEN <<2, 15, 5>> ELSE <<5, 100, 50>>
            r1 == v < th[1]
            r2 == g > 30 /\ v < th[2]
            r3 == g > 20 /\ a > 0
            r4 == -5 <= g /\ g <= 10 /\ v > th[3]
            r5 == -20 <= g /\ g < -5
            r6 == g < -20
        IN  /\ volume_growth.d = 1 /\ acceleration.d = 1
            /\ lifecycle_stage =
                 CASE r1 -> "Dormant"
                   [] ~r1 /\ r2 -> "Emerging"
                   [] ~r1 /\ ~r2 /\ r3 -> "Accelerating"
                   [] ~r1 /\ ~r2 /\ ~r3 /\ r4 -> (IF a <= 0 THEN "Peak" ELSE "Accelerating")
                   [] ~r1 /\ ~r2 /\ ~r3 /\ ~r4 /\ r5 -> "Saturation"
                   [] ~r1 /\ ~r2 /\ ~r3 /\ ~r4 /\ ~r5 /\ r6 -> "Decline"
                   [] OTHER -> (IF g > 10 THEN "Emerging" ELSE "Peak")

C6_Witness ==
    /\ lifecycle_pc = "returned"
    /\ scale = "micro"
    /\ total_volume = 6
    /\ volume_growth = Float(10)
    /\ acceleration = Float(1)
    /\ lifecycle_stage = "Accelerating"


-----------------------------------------------------------------------------
(* Properties of compute_composite_score *)

\* C7: in every record compute_composite_score returns, for every period,
\* composite_score = round(0.6 * volume_growth + 0.4 * price_growth, 2) with the
\* volume_growth and price_growth of that same record.
C7_CompositeOfRecordGrowths ==
    cs_pc = "returned" =>
        cs_result.composite_score =
            Round2(Rat(6 * cs_result.volume_growth + 4 * cs_result.price_growth, 1000))


-----------------------------------------------------------------------------
(* Properties of get_top_trends *)

\* the score rows get_top_trends ranks: of the period asked, keyword not inactive
TopEligible ==
    {i \in 1..Len(trend_scores) :
        /\ trend_scores[i].period_days = top_period
        /\ keywords[trend_scores[i].keyword].status # "inactive"}

TopScaleOf(i) ==
    IF keywords[trend_scores[i].keyword].scale = "micro" THEN "micro" ELSE "macro"

TopGroup(i) == {j \in TopEligible : TopScaleOf(j) = TopScaleOf(i)}

\* the rows of i's group that are surely, and that may be, ranked before i
TopAbove(i) ==
    Cardinality({j \in TopGroup(i) :
                    trend_scores[j].composite_score > trend_scores[i].composite_score})

TopNotBelow(i) ==
    Cardinality({j \in TopGroup(i) \ {i} :
                    trend_scores[j].composite_score >= trend_scores[i].composite_score})

\* the place of row i's keyword in the returned list, 0 when it is not in it
TopPlace(i) ==
    IF \E p \in 1..Len(top_result) : top_result[p].keyword = trend_scores[i].keyword
    THEN CHOOSE p \in 1..Len(top_result) : top_result[p].keyword = trend_scores[i].keyword
    ELSE 0

TopBefore(i, j) == TopPlace(j) # 0 => (TopPlace(i) # 0 /\ TopPlace(i) < TopPlace(j))

\* C10: the combined list is in descending order of the within-scale-group
\* percentile (group_size - rank_index) / group_size: of two non-inactive
\* keywords the one with the strictly larger percentile comes first whatever the
\* raw composite scores, and two keywords of one scale keep their composite-score
\* order (so micro #1 of 2 comes before macro #6 of 10).
C10_RankedByGroupPercentile ==
    top_pc = "returned" =>
        \A i, j \in TopEligible :
            LET n == Cardinality(TopGroup(i))
                m == Cardinality(TopGroup(j))
            IN  /\ ((n - TopNotBelow(i)) * m > (m - TopAbove(j)) * n) => TopBefore(i, j)
                /\ (TopScaleOf(i) = TopScaleOf(j)
                    /\ trend_scores[i].composite_score > trend_scores[j].composite_score)
                   => TopBefore(i, j)

\* micro #1 of 2, with a composite score below every macro score, is ranked 2nd
\* and macro #6 of 10 is ranked 7th
C10_Witness ==
    /\ top_pc = "returned"
    /\ top_period = 7
    /\ Len(top_result) = TopLimit
    /\ top_result[2].keyword = "k11"
    /\ top_result[2].scale = "micro"
    /\ top_result[2].composite_score = 1
    /\ top_result[7].keyword = "k6"
    /\ top_result[7].scale = "macro"
    /\ top_result[7].composite_score = 50

-----------------------------------------------------------------------------
(* The scheduled job *)

JobFunctions == <<"scrape_all_sources", "compute_all_scores", "catchup_google_trends">>

\* the functions of the job that have returned
Returned ==
    IF job_pc = "done" THEN {1, 2, 3}
    ELSE IF job_pc = "catchup_google_trends" THEN {1, 2}
    ELSE IF job_pc = "compute_all_scores" THEN {1}
    ELSE {}

\* the iteration of fn for keyword ran to its end
Attempted(fn, keyword) ==
    \E e \in job_log : e.fn = fn /\ e.keyword = keyword /\ e.event # "listed"

\* C11: a failure while scraping or scoring one keyword is not propagated to the
\* job, and when a function of the job has returned, every keyword it listed has
\* been attempted
C11_BatchIsolatesKeywordFailures ==
    /\ job_pc # "failed"
    /\ \A f \in Returned : \A e \in job_log :
           e.fn = JobFunctions[f] /\ e.event = "listed"
               => Attempted(e.fn, e.keyword)
    /\ job_pc \in {"scrape_all_sources", "compute_all_scores", "catchup_google_trends"}
           => \A i \in 1..Len(job_keywords) : i < job_i => Attempted(job_pc, job_keywords[i])

\* scoring raised for k1 in the batch and in the catch-up pass, a scrape of k1
\* failed, and k2 was scraped and scored all the same
C11_Witness ==
    /\ job_pc = "done"
    /\ Logged("scrape_all_sources", "k1", "logged") \in job_log
    /\ Logged("compute_all_scores", "k1", "logged") \in job_log
    /\ Logged("compute_all_scores", "k2", "done") \in job_log
    /\ Logged("catchup_google_trends", "k1", "logged") \in job_log
    /\ Logged("catchup_google_trends", "k2", "done") \in job_log

-----------------------------------------------------------------------------
(* Discovery and the classification collaborator *)

\* the keywords the propose step can name when candidate number i is looked at:
\* those of the registry that are not inactive and the candidates visited before
Nameable(i) ==
    {k \in Keywords : keywords[k] # NoRow /\ keywords[k].status # "inactive"}
    \cup {disc_candidates[j] : j \in 1..(i - 1)}

\* both signals are affirmative for candidate number i
TwoSignals(i) ==
    LET reply == disc_replies[disc_candidates[i]]
    IN  /\ reply.propose \in Nameable(i) \ {disc_candidates[i]}
        /\ reply.confirm = "YES"

\* C12: run_discovery leaves out a candidate that is not in the registry only if
\* the propose step named a keyword of the registry that is not inactive and the
\* confirm step answered yes; every other new candidate is inserted as
\* pending_review
C12_SuppressedOnlyOnTwoSignals ==
    [][response = NULL /\ response' # NULL
           => \A i \in 1..Len(disc_candidates) :
                  keywords[disc_candidates[i]] = NoRow /\ ~TwoSignals(i)
                      => keywords'[disc_candidates[i]].status = "pending_review"]_vars

\* the collaborator is not available: no key is configured
Unavailable == GetSetting(settings, "anthropic_api_key") \in {"AttributeError", ""}

\* C13: when the collaborator is unavailable classify_keyword_scale returns
\* 'macro', and a discovery run completes, commits and inserts every new
\* candidate as pending_review
C13_CollaboratorFailsOpen ==
    /\ [](Unavailable => \A k \in Keywords, reply \in ScaleReplies :
                             classify_keyword_scale(k, reply) = "macro")
    /\ [][Unavailable /\ response = NULL /\ response' # NULL
              => /\ response' = "discovered"
                 /\ \A i \in 1..Len(disc_candidates) :
                        keywords[disc_candidates[i]] = NoRow
                            => keywords'[disc_candidates[i]].status = "pending_review"]_vars

-----------------------------------------------------------------------------
(* Scale refinement *)

\* the statistics of keyword k as the claim names them
EnoughPoints(k) ==
    Len(SvValues(trend_data, k)) >= 5 /\ Len(ScoreValues(trend_scores, k)) >= 3

\* CV compared with p / 100, by squares; the mean is positive
CvOver(k, p) ==
    LET sv == SvValues(trend_data, k)
    IN  10000 * (Len(sv) * sum(Squares(sv)) - sum(sv) * sum(sv)) > p * p * sum(sv) * sum(sv)

CvUnder(k, p) ==
    LET sv == SvValues(trend_data, k)
    IN  10000 * (Len(sv) * sum(Squares(sv)) - sum(sv) * sum(sv)) < p * p * sum(sv) * sum(sv)

\* the variance of the scores, which are held in hundredths, times 10000 n^2
ScaledScoreVariance(k) ==
    LET sc == ScoreValues(trend_scores, k)
    IN  Len(sc) * sum(Squares(sc)) - sum(sc) * sum(sc)

StrongMicro(k) ==
    /\ EnoughPoints(k) /\ sum(SvValues(trend_data, k)) > 0
    /\ CvOver(k, 65)
    /\ ScaledScoreVariance(k) > 1500 * 10000 * Len(ScoreValues(trend_scores, k))
                                    * Len(ScoreValues(trend_scores, k))

StrongMacro(k) ==
    /\ EnoughPoints(k) /\ sum(SvValues(trend_data, k)) > 0
    /\ CvUnder(k, 15)
    /\ ScaledScoreVariance(k) < 150 * 10000 * Len(ScoreValues(trend_scores, k))
                                    * Len(ScoreValues(trend_scores, k))

\* C14: a refinement run changes the scale of a keyword only to micro when both
\* signals are strongly micro, only to macro when both are strongly macro, and
\* only with at least 5 search-volume points and 3 score points; otherwise the
\* stored scale stays as it is
C14_RefinesOnlyOnStrongAgreement ==
    [][response = NULL /\ response' = "refined"
           => \A k \in Keywords :
                  keywords'[k].scale # keywords[k].scale
                      => \/ StrongMicro(k) /\ keywords'[k].scale = "micro"
                         \/ StrongMacro(k) /\ keywords'[k].scale = "macro"]_vars

\* a run has set to micro a keyword stored as macro
C14_Witness ==
    /\ response = "refined"
    /\ keywords["k1"].scale = "micro"
    /\ StrongMicro("k1")
    /\ Len(SvValues(trend_data, "k1")) = 5

-----------------------------------------------------------------------------
(* Expiry of the keywords of users *)

\* the keyword was last searched more than 30 days ago, or never
NotSearchedFor30Days(row) ==
    row.last_searched_at = -1 \/ now - row.last_searched_at > 24 * 30

\* C15: an expiry run sets to inactive exactly the active user_search keywords
\* that were never searched or were last searched more than 30 days ago, and
\* leaves every other row of the registry as it was
C15_ExpiresExactlyStaleUserKeywords ==
    [][expire_stale_keywords
           => \A k \in Keywords :
                  keywords'[k] =
                      IF /\ keywords[k].source = "user_search"
                         /\ keywords[k].status = "active"
                         /\ NotSearchedFor30Days(keywords[k])
                      THEN [keywords[k] EXCEPT !.status = "inactive"]
                      ELSE keywords[k]]_vars

\* an expiry run has expired k1, searched 32 days before, and has left active
\* k2, searched 16 days before
C15_Witness ==
    /\ response = "expired"
    /\ keywords["k1"].source = "user_search"
    /\ keywords["k1"].status = "inactive"
    /\ keywords["k1"].last_searched_at = now - 2 * ClockStep
    /\ keywords["k2"].source = "user_search"
    /\ keywords["k2"].status = "active"
    /\ keywords["k2"].last_searched_at = now - ClockStep

-----------------------------------------------------------------------------
(* The on-demand path *)

\* the sources the scrapers collect from under the settings
CollectedSources == {"google_trends"} \cup Configured(settings)

\* C16: the freshness test answers yes exactly when every source that is
\* collected under the settings has a row of the keyword recorded within the
\* last 6 hours
C16_FreshIffEveryConfiguredSource ==
    [][req_pc = "check" /\ req_pc' # "check"
           => req_fresh' = (CollectedSources \subseteq
                                FreshSources(trend_data, req_keyword, now - 6))]_vars

\* C17: the handler spends at most 30 seconds in join, a handler that waits
\* for the scrape thread always sends its response, whatever the thread does,
\* and no step of the handler ends or changes the thread it has started
C17_BoundedWait ==
    /\ [](req_waited <= 30)
    /\ (req_pc = "join") ~> (req_pc = "sent")
    /\ [][ondemand.pc # "none" /\ req_pc' # req_pc => ondemand' = ondemand]_vars

\* the response went out after the full wait without a score of the keyword,
\* and the thread has stored and committed the scores afterwards
C17_Witness ==
    /\ req_pc = "sent"
    /\ ~req_fresh
    /\ req_waited = JoinTimeout
    /\ ~req_body.scored
    /\ ondemand.pc = "done"
    /\ ScoreRows(trend_scores, req_keyword, SearchPeriod) # {}

\* C20: the first step of a search or of a comparison-add registers the
\* keyword: a keyword that was absent is stored as an active user_search
\* keyword, an inactive one becomes active, any other keeps status and source,
\* last_searched_at is the current time in every case; the freshness test
\* comes after that step
C20_RegisteredBeforeFreshness ==
    /\ [](req_pc \in {"check", "join", "respond"} => keywords[req_keyword] # NoRow)
    /\ [][req_pc = "idle" /\ req_pc' = "check"
              => LET before == keywords[req_keyword']
                     after == keywords'[req_keyword']
                 IN  /\ after # NoRow
                     /\ after.last_searched_at = now
                     /\ before = NoRow
                            => after.source = "user_search" /\ after.status = "active"
                     /\ before # NoRow
                            => /\ after.source = before.source
                               /\ after.status = IF before.status = "inactive"
                                                 THEN "active" ELSE before.status]_vars

\* a search has registered an unknown keyword and the freshness test has run
C20_Witness ==
    /\ req_pc = "join"
    /\ req_endpoint = "compare"
    /\ keywords[req_keyword].source = "user_search"
    /\ keywords[req_keyword].status = "active"
    /\ keywords[req_keyword].last_searched_at = now
    /\ req_keyword \in user_comparisons

\* a keyword that a discovery run inserted: only run_discovery writes the
\* source auto_discovered, together with the status pending_review
Discovered(k) == keywords[k] # NoRow /\ keywords[k].source = "auto_discovered"

-----------------------------------------------------------------------------
(* The catch-up pass *)

\* keyword k has a search_volume point of Google Trends that was recorded in
\* the last 24 hours
FreshPoint(k) ==
    \E i \in 1..Len(trend_data) :
        /\ trend_data[i].keyword = k
        /\ trend_data[i].source = "google_trends"
        /\ trend_data[i].metric = "search_volume"
        /\ now - trend_data[i].recorded_at <= 24

\* the rows of data that are not Google Trends rows of keyword k
RowsBeside(data, k) ==
    LET Other(r) == r.keyword # k \/ r.source # "google_trends"
    IN  SelectSeq(data, Other)

\* the scores of the keywords other than k
ScoresBeside(scores, k) ==
    LET Other(r) == r.keyword # k
    IN  SelectSeq(scores, Other)

\* what the catch-up pass has logged for keyword k
CatchupEvents(log, k) ==
    {e.event : e \in {x \in log : x.fn = "catchup_google_trends" /\ x.keyword = k}}

\* C19: the catch-up pass lists exactly the active keywords without a Google
\* Trends search_volume point of the last 24 hours, each once; an iteration
\* writes nothing but Google Trends rows and scores of the keyword it is at,
\* and neither computes nor changes scores when the scrape has failed; the
\* registry is not written
C19_CatchupOnlyMissingKeywords ==
    /\ [][job_pc = "compute_all_scores" /\ job_pc' \in {"catchup_google_trends", "done"}
              => /\ {job_keywords'[i] : i \in 1..Len(job_keywords')}
                        = {k \in Keywords : /\ keywords[k] # NoRow
                                            /\ keywords[k].status = "active"
                                            /\ ~FreshPoint(k)}
                 /\ \A i, j \in 1..Len(job_keywords') :
                        job_keywords'[i] = job_keywords'[j] => i = j
                 /\ UNCHANGED <<trend_data, trend_scores, keywords>>]_vars
    /\ [][job_pc = "catchup_google_trends" /\ job_i' # job_i
              => LET k == job_keywords[job_i]
                 IN  /\ RowsBeside(trend_data', k) = RowsBeside(trend_data, k)
                     /\ ScoresBeside(trend_scores', k) = ScoresBeside(trend_scores, k)
                     /\ keywords' = keywords
                     /\ "scrape_failed" \in CatchupEvents(job_log', k)
                            => /\ trend_scores' = trend_scores
                               /\ CatchupEvents(job_log', k) \cap {"done", "logged"} = {}]_vars

\* the pass is over: it re-scraped both keywords, the scrape of k1 failed and
\* its scores were left alone, the scrape of k2 succeeded and k2 was scored
C19_Witness ==
    /\ job_pc = "done"
    /\ "scrape_failed" \in CatchupEvents(job_log, "k1")
    /\ "done" \in CatchupEvents(job_log, "k2")
    /\ \E i \in 1..Len(trend_scores) : trend_scores[i].keyword = "k2"

-----------------------------------------------------------------------------
(* Discovery only adds *)

\* C21: a discovery run leaves every row of the registry as it is, a candidate
\* that is in the registry in any status included; every row it adds is the
\* row of a candidate, with source auto_discovered and status pending_review;
\* and it adds such a row for each candidate that is new and not suppressed
C21_DiscoveryOnlyAdds ==
    [][response = NULL /\ response' # NULL
           => /\ \A k \in Keywords :
                     /\ keywords[k] # NoRow => keywords'[k] = keywords[k]
                     /\ keywords[k] = NoRow /\ keywords'[k] # NoRow
                            => /\ \E i \in 1..Len(disc_candidates) : disc_candidates[i] = k
                               /\ keywords'[k].source = "auto_discovered"
                               /\ keywords'[k].status = "pending_review"
              /\ \A i \in 1..Len(disc_candidates) :
                     keywords[disc_candidates[i]] = NoRow /\ ~TwoSignals(i)
                         => keywords'[disc_candidates[i]] # NoRow]_vars

-----------------------------------------------------------------------------
(* The forecast *)

\* C22: with fewer than 7 daily points the forecast is empty and
\* insufficient_data is true; with 7 or more insufficient_data is false, the
\* forecast has one entry for each day of the horizon, and every entry has
\* 0 <= lower <= value <= upper <= 100
C22_ForecastShape ==
    fc_pc = "returned" =>
        IF Len(fc_historical) < 7
        THEN fc_result.insufficient_data /\ fc_result.forecast = <<>>
        ELSE /\ ~fc_result.insufficient_data
             /\ Len(fc_result.forecast) = Cardinality(1..fc_horizon)
             /\ \A i \in 1..Len(fc_result.forecast) :
                    LET e == fc_result.forecast[i]
                    IN  /\ FloatLE(Float(0), e.lower)
                        /\ FloatLE(e.lower, e.value)
                        /\ FloatLE(e.value, e.upper)
                        /\ FloatLE(e.upper, Float(100))

\* a history of 7 points whose trend leaves the scale: the value of the
\* second day is cut at 0 and the lower bound with it, the upper bound is not
C22_Witness ==
    /\ fc_pc = "returned"
    /\ Len(fc_historical) = 7
    /\ fc_horizon = 2
    /\ Len(fc_result.forecast) = 2
    /\ fc_result.forecast[2].value = Float(0)
    /\ fc_result.forecast[2].lower = Float(0)
    /\ FloatGT(fc_result.forecast[2].upper, Float(0))

-----------------------------------------------------------------------------
(* The retry loop of the Google Trends scrape *)

\* the attempts that failed
FailedAttempts == {i \in 1..Len(gt_outcomes) : ~gt_outcomes[i]}

\* C23: scrape_google_trends makes at most retries attempts, none after an
\* attempt that succeeded; it returns true as soon as an attempt succeeds and
\* false only after retries failed attempts; the wait after failed attempt
\* number i (counted from 0) is 60 * 2^i seconds; and it always returns
C23_BoundedBackoffRetry ==
    /\ [](Len(gt_outcomes) <= gt_retries)
    /\ [](\A i \in 1..Len(gt_outcomes) : gt_outcomes[i] => i = Len(gt_outcomes))
    /\ [](gt_pc = "returned" =>
            /\ gt_result = "True" <=> FailedAttempts # 1..Len(gt_outcomes)
            /\ gt_result = "False" <=> Cardinality(FailedAttempts) = gt_retries)
    /\ [](/\ Len(gt_slept) =
                Cardinality(FailedAttempts) - (IF gt_pc = "sleep" THEN 1 ELSE 0)
          /\ \A i \in 1..Len(gt_slept) : gt_slept[i] = 60 * 2^(i - 1))
    /\ <>(gt_pc = "returned")

\* the call with the default of three attempts gave up: three attempts failed
\* and the waits were 60, 120 and 240 seconds
C23_Witness ==
    /\ gt_pc = "returned"
    /\ gt_retries = 3
    /\ gt_result = "False"
    /\ gt_outcomes = <<FALSE, FALSE, FALSE>>
    /\ gt_slept = <<60, 120, 240>>

-----------------------------------------------------------------------------
(* The acceleration of the lifecycle decision *)

\* the threads that hold the result of compute_composite_score for a period;
\* the committed scores are those the call has read
Computed == {t \in Threads : threads[t].pc \in {"delete", "insert", "commit"}}

\* the acceleration is the computed composite score, unrounded, minus stored
\* score number i of the keyword: the rounded sum is the composite of the result
AgainstStored(result, stored, i) ==
    Round2(FloatAdd(result.acceleration, Rat(stored[i].composite_score, 100)))
        = result.composite_score

\* C24: with fewer than 2 stored scores of the keyword the acceleration is 0,
\* otherwise it is the computed composite score minus a stored composite score
\* of the keyword; it is 0 for every period of the first run for a keyword
C24_AccelerationAgainstStoredScore ==
    \A t \in Computed :
        LET result == threads[t].result
            stored == ScoresOf(trend_scores, result.keyword)
        IN  /\ Len(stored) < 2 => result.acceleration = Float(0)
            /\ Len(stored) >= 2 => \E i \in 1..Len(stored) : AgainstStored(result, stored, i)
            /\ result.keyword \notin scored => result.acceleration = Float(0)

\* the last period of the first run has a composite score that is not 0 and
\* the acceleration 0
C24_Witness ==
    /\ threads["t1"].pc = "insert"
    /\ threads["t1"].i = 5
    /\ ScoredKeyword \notin scored
    /\ \E i \in 1..Len(db_pending) : db_pending[i].composite_score # 0
    /\ threads["t1"].result.acceleration = Float(0)

\* C27: the acceleration of the score of period p is the computed composite
\* score minus the stored score of the same keyword for the same period p
C27_AccelerationOfSamePeriod ==
    \A t \in Computed :
        LET result == threads[t].result
            stored == ScoresOf(trend_scores, result.keyword)
        IN  Len(stored) >= 2 =>
                \E i \in 1..Len(stored) :
                    /\ stored[i].period_days = result.period_days
                    /\ AgainstStored(result, stored, i)

-----------------------------------------------------------------------------
(* The fallback of the lifecycle decision *)

\* the keyword is not dormant; the floor of the peak branch for its scale
NotDormant == total_volume >= (IF scale = "micro" THEN 2 ELSE 5)
PeakFloor == IF scale = "micro" THEN 5 ELSE 50

\* the branch of the decision that returned
BranchTaken == LifecycleBranch(total_volume, volume_growth, acceleration, ScaleOrMacro(scale))

\* C26: a keyword that is not dormant, with -5 <= volume_growth <= 10 and a
\* total volume not above the peak floor, leaves through the final else and is
\* Peak whatever its acceleration; a keyword that is not dormant with
\* volume_growth < -5 never leaves through the final else: it is Saturation
\* or Decline whatever its acceleration and volume
C26_FallbackPeak ==
    lifecycle_pc = "returned" /\ NotDormant =>
        /\ (/\ FloatLE(Float(-5), volume_growth)
            /\ FloatLE(volume_growth, Float(10))
            /\ total_volume <= PeakFloor)
               => BranchTaken = 7 /\ lifecycle_stage = "Peak"
        /\ FloatLT(volume_growth, Float(-5))
               => BranchTaken # 7 /\ lifecycle_stage \in {"Saturation", "Decline"}

\* a macro keyword at the peak floor with a growth of 0 and a positive
\* acceleration is Peak
C26_Witness ==
    /\ lifecycle_pc = "returned"
    /\ scale = "macro"
    /\ total_volume = 50
    /\ volume_growth = Float(0)
    /\ acceleration = Float(1)
    /\ lifecycle_stage = "Peak"

-----------------------------------------------------------------------------
(* The comparison list and the on-demand threads under requests served at *)
(* the same time                                                           *)

\* handler thread h takes the count of an add request in this step
AddCounts(h) ==
    /\ handlers[h].pc = "idle"
    /\ handlers'[h].pc # "idle"
    /\ handlers'[h].endpoint = "compare"

\* C25: the comparison list of a user never holds more than MAX_COMPARE
\* keywords, whatever add, remove and clear requests are served and however
\* the add requests interleave; an add request that finds the list at the
\* limit is answered 400 and leaves the list as it is
C25_ComparisonLimit ==
    /\ [](Cardinality(user_comparisons) <= MAX_COMPARE)
    /\ [][\A h \in Handlers :
             AddCounts(h) /\ Cardinality(user_comparisons) >= MAX_COMPARE =>
                 /\ handlers'[h].status = "400"
                 /\ handlers'[h].pc = "sent"
                 /\ user_comparisons' = user_comparisons]_vars

\* the scrape_single_keyword threads that are running
AliveThreads == {i \in 1..Len(scrape_threads) : scrape_threads[i].pc \in {"scrape", "score"}}

\* C28: at any time at most one scrape_single_keyword thread runs for a
\* keyword: a request for a keyword whose scrape is still running, served at
\* the same time or after the first request timed out, starts no other thread
C28_OneScrapePerKeyword ==
    \A i, j \in AliveThreads :
        scrape_threads[i].keyword = scrape_threads[j].keyword => i = j

-----------------------------------------------------------------------------
(* The catch-up pass after a main pass that stored points *)

\* what the main pass has logged for keyword k
MainPassEvents(log, k) ==
    {e.event : e \in {x \in log : x.fn = "scrape_all_sources" /\ x.keyword = k}}

\* C29: in one run of scrape_and_score, a keyword whose Google Trends scrape
\* succeeded and stored search_volume points in the main pass is not selected
\* by the catch-up pass; the keywords the catch-up pass selects are keywords
\* whose scrape of the main pass failed or returned no data
C29_CatchupSkipsScrapedKeywords ==
    [][job_pc = "compute_all_scores" /\ job_pc' \in {"catchup_google_trends", "done"}
           => \A i \in 1..Len(job_keywords') :
                  LET k == job_keywords'[i]
                  IN  /\ "stored" \notin MainPassEvents(job_log, k)
                      /\ \/ "logged" \in MainPassEvents(job_log, k)
                         \/ MainPassEvents(job_log, k) = {"listed", "done"}]_vars

-----------------------------------------------------------------------------
(* The origin of a keyword *)

\* C30: no operation removes a row of the registry or changes the source of a
\* row: seed loading, searches and comparison-adds, discovery runs,
\* activation, removal, expiry and the updates of the scale leave the source
\* of every keyword as it was when its row was created; a keyword of a user
\* that is in the seed list keeps source user_search when the seed is loaded,
\* and is still expired when it is stale
C30_SourceNeverChanges ==
    /\ [][\A k \in Keywords :
              keywords[k] # NoRow =>
                  /\ keywords'[k] # NoRow
                  /\ keywords'[k].source = keywords[k].source]_vars
    /\ [][\A k \in SeedKeywords :
              (/\ keywords[k] # NoRow
               /\ keywords[k].source = "user_search"
               /\ keywords[k].status = "active"
               /\ keywords[k].last_searched_at < now - ExpiryHours
               /\ response = "loaded"
               /\ response' = "expired")
                  => keywords'[k].status = "inactive"]_vars

\* the seed was loaded over k1, a keyword of a user that is in the seed list
\* and that was expired before: it is still a keyword of a user, inactive, and
\* its scale was updated
C30_Witness ==
    /\ response = "loaded"
    /\ "k1" \in SeedKeywords
    /\ keywords["k1"] # NoRow
    /\ keywords["k1"].source = "user_search"
    /\ keywords["k1"].status = "inactive"
    /\ keywords["k1"].scale = "micro"
    /\ now > ExpiryHours

=============================================================================
